---- MODULE Spec2Model ----
(***************************************************************************)
(* Tick-to-bar aggregation: CandleBuilder (app/data/builder.py), the       *)
(* Candle record (app/data/models.py) and validate_candle                  *)
(* (app/data/validation.py).                                               *)
(*                                                                         *)
(* Time.  A datetime is a record [wall, tz]: wall is the wall-clock        *)
(* reading in the datetime's own zone, counted in units of 1/SubSec second *)
(* from midnight of day 0; tz is "IST", "UTC" or "naive".  Prices are      *)
(* integers.  Python's None is the record None.                            *)
(***************************************************************************)
EXTENDS Integers, Sequences, FiniteSets, TLC

\* ------------------------------------------------------------------ bounds
SubSec == 2          \* clock resolution: units per second
MaxDay == 1          \* ticks are drawn from days 0..MaxDay
EpochDaysBack == 2   \* day 0 lies this many days after EPOCH_CUTOFF

\* ------------------------------------------------------ time arithmetic
SecondsPerMinute == 60
SecondsPerHour == 60 * SecondsPerMinute
SecondsPerDay == 24 * SecondsPerHour

None == [none |-> TRUE]
NoExc == "no exception"

\* datetime(day, h, m, s, sub-second u) as a wall-clock reading
At(d, h, m, s, u) ==
    (d * SecondsPerDay + h * SecondsPerHour + m * SecondsPerMinute + s) * SubSec + u

\* utcoffset of a zone, in seconds (Asia/Kolkata is UTC+05:30 all year)
IstOffsetSeconds == (5 * 60 + 30) * SecondsPerMinute
utcoffset(tz) == IF tz = "IST" THEN IstOffsetSeconds ELSE 0

\* the instant an aware datetime denotes, in units since day 0 00:00 UTC
Instant(dt) == dt.wall - utcoffset(dt.tz) * SubSec

\* datetime.astimezone(tz): same instant, wall clock of the target zone
astimezone(dt, tz) ==
    [wall |-> Instant(dt) + utcoffset(tz) * SubSec, tz |-> tz]

\* a < b, a <= b on aware datetimes: Python compares the instants
DtLess(a, b) == Instant(a) < Instant(b)
DtLeq(a, b) == Instant(a) <= Instant(b)

\* datetime + timedelta(seconds = n)
PlusSeconds(dt, n) == [dt EXCEPT !.wall = @ + n * SubSec]

\* datetime.replace(hour, minute, second = 0, microsecond = 0): same date
ReplaceTime(dt, h, m) ==
    [dt EXCEPT !.wall =
        (dt.wall \div (SecondsPerDay * SubSec)) * (SecondsPerDay * SubSec)
        + (h * SecondsPerHour + m * SecondsPerMinute) * SubSec]

\* datetime.time(): wall-clock time of day, in units since midnight
TimeOfDay(dt) == dt.wall % (SecondsPerDay * SubSec)
TimeOf(h, m) == (h * SecondsPerHour + m * SecondsPerMinute) * SubSec

\* datetime.minute
MinuteOf(dt) == (dt.wall % (SecondsPerHour * SubSec)) \div (SecondsPerMinute * SubSec)

Max(a, b) == IF a >= b THEN a ELSE b
Min(a, b) == IF a <= b THEN a ELSE b

\* --------------------------------------------------- app/data/models.py
\* @dataclass(frozen=True): assigning to a field of a Candle raises
\* dataclasses.FrozenInstanceError and leaves the object as it was.
Candle_frozen == TRUE
FrozenInstanceError == "FrozenInstanceError"

Candle(symbol, timeframe, open_price, high_price, low_price, close_price, volume, number_of_trades, open_time, close_time, is_closed, mode) ==
    [symbol |-> symbol, timeframe |-> timeframe,
     open_time |-> open_time, close_time |-> close_time,
     open_price |-> open_price, high_price |-> high_price,
     low_price |-> low_price, close_price |-> close_price,
     volume |-> volume, number_of_trades |-> number_of_trades,
     is_closed |-> is_closed, mode |-> mode]

\* ----------------------------------------------- app/data/validation.py
MARKET_START == TimeOf(9, 15)
MARKET_END == TimeOf(15, 30)

\* ALLOWED_TIMEFRAMES: identifier -> expected duration in seconds
AllowedTimeframeNames ==
    {"FIFTEEN_MINUTE", "ONE_MINUTE", "THREE_MINUTE", "FIVE_MINUTE", "TEN_MINUTE"}
ALLOWED_TIMEFRAMES(name) ==
    CASE name = "FIFTEEN_MINUTE" -> 15 * SecondsPerMinute
      [] name = "ONE_MINUTE" -> 1 * SecondsPerMinute
      [] name = "THREE_MINUTE" -> 3 * SecondsPerMinute
      [] name = "FIVE_MINUTE" -> 5 * SecondsPerMinute
      [] name = "TEN_MINUTE" -> 10 * SecondsPerMinute

MIN_VOLUME == 1
MIN_N0_OF_TRADES == 1
FUTURE_TIME_TOLERANCE_SECONDS == 60

\* EPOCH_CUTOFF = 1980-01-01 00:00 IST.  Day 0 of the model is a trading day
\* EpochDaysBack days after it.
EPOCH_CUTOFF == [wall |-> 0 - EpochDaysBack * SecondsPerDay * SubSec, tz |-> "IST"]

\* the reason of an accepted candle (Python None)
NoReason == "None"
Verdict(valid, reason) == [valid |-> valid, reason |-> reason]

\* validate_candle, section by section; each section yields the reason code
\* of its first failing check, or NoReason.  The isinstance checks are on
\* the Python types of the fields; the model's times are datetimes and its
\* prices, volume and trade count are integers.

\* 1: candle finality
check_finality(candle) ==
    IF ~candle.is_closed THEN "CANDLE_NOT_CLOSED" ELSE NoReason

\* 2: timeframe validity
check_timeframe(candle) ==
    IF candle.timeframe \notin AllowedTimeframeNames
    THEN "UNSUPPORTED_TIMEFRAME" ELSE NoReason

\* timestamp sanity with the tolerance exclusive at exactly 60 seconds
check_timestamp_sanity_exclusive(candle, ist_now) ==
    IF candle.open_time.tz = "naive" \/ candle.close_time.tz = "naive"
        THEN "TIMESTAMP_NO_TIMEZONE"
    ELSE IF DtLess(candle.open_time, EPOCH_CUTOFF) \/ DtLess(candle.close_time, EPOCH_CUTOFF)
        THEN "TIMESTAMP_CORRUPT"
    ELSE IF DtLeq(PlusSeconds(ist_now, FUTURE_TIME_TOLERANCE_SECONDS), candle.open_time)
        THEN "TIMESTAMP_IN_FUTURE"
    ELSE NoReason

\* 3: timestamp sanity; ist_now is the reading of datetime.now(IST)
check_timestamp_sanity(candle, ist_now) ==
    IF candle.open_time.tz = "naive" \/ candle.close_time.tz = "naive"
        THEN "TIMESTAMP_NO_TIMEZONE"
    ELSE IF DtLess(candle.open_time, EPOCH_CUTOFF) \/ DtLess(candle.close_time, EPOCH_CUTOFF)
        THEN "TIMESTAMP_CORRUPT"
    ELSE IF DtLess(PlusSeconds(ist_now, FUTURE_TIME_TOLERANCE_SECONDS), candle.open_time)
        THEN "TIMESTAMP_IN_FUTURE"
    ELSE NoReason

\* the duration check that also lets a candle longer than expected through
check_time_integrity_shorter_only(candle) ==
    LET expected_duration == ALLOWED_TIMEFRAMES(candle.timeframe) IN
    IF ~DtLess(candle.open_time, candle.close_time)
        THEN "INVALID_TIME_RANGE"
    ELSE IF Instant(candle.close_time) - Instant(candle.open_time) < expected_duration * SubSec
        THEN "TIMEFRAME_MISMATCH"
    ELSE IF TimeOfDay(candle.close_time) > MARKET_END
        THEN "MARKET_HOURS_VIOLATION"
    ELSE IF TimeOfDay(candle.open_time) < MARKET_START
            /\ TimeOfDay(candle.close_time) <= MARKET_START
        THEN "MARKET_HOURS_VIOLATION"
    ELSE NoReason

\* the market hours rule asking for the open inside the session as well
check_time_integrity_open_in_session(candle) ==
    LET expected_duration == ALLOWED_TIMEFRAMES(candle.timeframe) IN
    IF ~DtLess(candle.open_time, candle.close_time)
        THEN "INVALID_TIME_RANGE"
    ELSE IF Instant(candle.close_time) - Instant(candle.open_time) # expected_duration * SubSec
        THEN "TIMEFRAME_MISMATCH"
    ELSE IF TimeOfDay(candle.close_time) > MARKET_END
        THEN "MARKET_HOURS_VIOLATION"
    ELSE IF TimeOfDay(candle.open_time) < MARKET_START
        THEN "MARKET_HOURS_VIOLATION"
    ELSE NoReason

\* 4: time integrity and the market hours rule
check_time_integrity(candle) ==
    LET expected_duration == ALLOWED_TIMEFRAMES(candle.timeframe) IN
    IF ~DtLess(candle.open_time, candle.close_time)
        THEN "INVALID_TIME_RANGE"
    ELSE IF Instant(candle.close_time) - Instant(candle.open_time) # expected_duration * SubSec
        THEN "TIMEFRAME_MISMATCH"
    ELSE IF TimeOfDay(candle.close_time) > MARKET_END
        THEN "MARKET_HOURS_VIOLATION"
    ELSE IF TimeOfDay(candle.open_time) < MARKET_START
            /\ TimeOfDay(candle.close_time) <= MARKET_START
        THEN "MARKET_HOURS_VIOLATION"
    ELSE NoReason

\* 5: price positivity
check_prices(candle) ==
    IF \E price \in {candle.open_price, candle.high_price,
                     candle.low_price, candle.close_price} : price <= 0
    THEN "NON_POSITIVE_PRICE" ELSE NoReason

\* the OHLC check without the comparison of high with close
check_ohlc_no_high_close(candle) ==
    IF candle.high_price < candle.low_price THEN "INVALID_OHLC"
    ELSE IF candle.high_price < candle.open_price THEN "INVALID_OHLC"
    ELSE IF candle.low_price > candle.open_price THEN "INVALID_OHLC"
    ELSE IF candle.low_price > candle.close_price THEN "INVALID_OHLC"
    ELSE NoReason

\* 6: OHLC structural consistency
check_ohlc(candle) ==
    IF candle.high_price < candle.low_price THEN "INVALID_OHLC"
    ELSE IF candle.high_price < candle.open_price THEN "INVALID_OHLC"
    ELSE IF candle.high_price < candle.close_price THEN "INVALID_OHLC"
    ELSE IF candle.low_price > candle.open_price THEN "INVALID_OHLC"
    ELSE IF candle.low_price > candle.close_price THEN "INVALID_OHLC"
    ELSE NoReason

\* the activity check asking for trades of every mode
check_activity_every_mode(candle) ==
    IF candle.volume < MIN_VOLUME THEN "VOLUME_ZERO"
    ELSE IF candle.number_of_trades <= 0 \/ candle.number_of_trades < MIN_N0_OF_TRADES
        THEN "NO_OF_TRADES_ZERO or BELOW MINIMUM"
    ELSE NoReason

\* 7: activity existence and completeness
check_activity(candle) ==
    IF candle.volume < MIN_VOLUME THEN "VOLUME_ZERO"
    ELSE IF candle.mode = "live"
            /\ (candle.number_of_trades <= 0 \/ candle.number_of_trades < MIN_N0_OF_TRADES)
        THEN "NO_OF_TRADES_ZERO or BELOW MINIMUM"
    ELSE NoReason

\* validate_candle with the OHLC section run before the price section
validate_candle_ohlc_before_prices(candle, ist_now) ==
    IF check_finality(candle) # NoReason
        THEN Verdict(FALSE, check_finality(candle))
    ELSE IF check_timeframe(candle) # NoReason
        THEN Verdict(FALSE, check_timeframe(candle))
    ELSE IF check_timestamp_sanity(candle, ist_now) # NoReason
        THEN Verdict(FALSE, check_timestamp_sanity(candle, ist_now))
    ELSE IF check_time_integrity(candle) # NoReason
        THEN Verdict(FALSE, check_time_integrity(candle))
    ELSE IF check_ohlc(candle) # NoReason
        THEN Verdict(FALSE, check_ohlc(candle))
    ELSE IF check_prices(candle) # NoReason
        THEN Verdict(FALSE, check_prices(candle))
    ELSE IF check_activity(candle) # NoReason
        THEN Verdict(FALSE, check_activity(candle))
    ELSE Verdict(TRUE, NoReason)

\* validate_candle(candle): the sections in the order of the source, the
\* first failure returned
validate_candle(candle, ist_now) ==
    IF check_finality(candle) # NoReason
        THEN Verdict(FALSE, check_finality(candle))
    ELSE IF check_timeframe(candle) # NoReason
        THEN Verdict(FALSE, check_timeframe(candle))
    ELSE IF check_timestamp_sanity(candle, ist_now) # NoReason
        THEN Verdict(FALSE, check_timestamp_sanity(candle, ist_now))
    ELSE IF check_time_integrity(candle) # NoReason
        THEN Verdict(FALSE, check_time_integrity(candle))
    ELSE IF check_prices(candle) # NoReason
        THEN Verdict(FALSE, check_prices(candle))
    ELSE IF check_ohlc(candle) # NoReason
        THEN Verdict(FALSE, check_ohlc(candle))
    ELSE IF check_activity(candle) # NoReason
        THEN Verdict(FALSE, check_activity(candle))
    ELSE Verdict(TRUE, NoReason)

\* -------------------------------------------------- app/data/builder.py
IST == "IST"

\* get_candle_boundary with second and microsecond left as they were
get_candle_boundary_keeps_seconds(tick_time, timeframe_seconds) ==
    LET minute == MinuteOf(tick_time)
        timeframe_minutes == timeframe_seconds \div SecondsPerMinute
        aligned_minute == (minute \div timeframe_minutes) * timeframe_minutes
        hourStart == (tick_time.wall \div (SecondsPerHour * SubSec)) * (SecondsPerHour * SubSec)
        below_minute == tick_time.wall % (SecondsPerMinute * SubSec)
    IN [tick_time EXCEPT !.wall = hourStart + aligned_minute * SecondsPerMinute * SubSec + below_minute]

\* get_candle_boundary aligning to the end of the tick's period
get_candle_boundary_next_period(tick_time, timeframe_seconds) ==
    LET minute == MinuteOf(tick_time)
        timeframe_minutes == timeframe_seconds \div SecondsPerMinute
        aligned_minute == (minute \div timeframe_minutes + 1) * timeframe_minutes
        hourStart == (tick_time.wall \div (SecondsPerHour * SubSec)) * (SecondsPerHour * SubSec)
    IN [tick_time EXCEPT !.wall = hourStart + aligned_minute * SecondsPerMinute * SubSec]

\* get_candle_boundary(tick_time, timeframe_seconds): minute-of-hour
\* truncated to a multiple of timeframe_seconds // 60, second and
\* microsecond zeroed, everything above the minute kept.
get_candle_boundary(tick_time, timeframe_seconds) ==
    LET minute == MinuteOf(tick_time)
        timeframe_minutes == timeframe_seconds \div SecondsPerMinute
        aligned_minute == (minute \div timeframe_minutes) * timeframe_minutes
        hourStart == (tick_time.wall \div (SecondsPerHour * SubSec)) * (SecondsPerHour * SubSec)
    IN [tick_time EXCEPT !.wall = hourStart + aligned_minute * SecondsPerMinute * SubSec]

\* _is_market_time without the upper end of the session
_is_market_time_no_end(ts) ==
    DtLeq(ReplaceTime(ts, 9, 15), ts)

\* CandleBuilder._is_market_time(ts)
_is_market_time(ts) ==
    LET market_start == ReplaceTime(ts, 9, 15)
        market_end == ReplaceTime(ts, 15, 30)
    IN DtLeq(market_start, ts) /\ DtLeq(ts, market_end)

\* CandleState; StateNone is the constructor's self.state = None
StateNone == "None"
BUILDING == "building"
CLOSED == "closed"
EMITTED == "emitted"
DROPPED == "dropped"

\* what a method leaves behind: the builder, the value returned, and the
\* exception that ended it (NoExc when it returned)
Outcome(self, ret, exc) == [self |-> self, ret |-> ret, exc |-> exc]

\* CandleBuilder.__init__
CandleBuilder(symbol, timeframe, timeframe_seconds) ==
    [symbol |-> symbol, timeframe |-> timeframe,
     timeframe_seconds |-> timeframe_seconds,
     current_candle |-> None, state |-> StateNone,
     last_tick_time |-> None, tz |-> IST]

\* _start_new_candle with the seeding tick not counted as a trade
_start_new_candle_zero_trades(self, price, quantity, start_time, end_time) ==
    [self EXCEPT
        !.current_candle =
            Candle(self.symbol, self.timeframe, price, price, price, price,
                   quantity, 0, start_time, end_time, FALSE, "live"),
        !.state = BUILDING]

\* CandleBuilder._start_new_candle
_start_new_candle(self, price, quantity, start_time, end_time) ==
    [self EXCEPT
        !.current_candle =
            Candle(self.symbol, self.timeframe, price, price, price, price,
                   quantity, 1, start_time, end_time, FALSE, "live"),
        !.state = BUILDING]

\* CandleBuilder._update_candle: the first field assignment is the one
\* that raises on a frozen Candle
_update_candle(self, price, quantity) ==
    IF self.current_candle = None \/ self.state # BUILDING
    THEN Outcome(self, None, NoExc)
    ELSE IF Candle_frozen
    THEN Outcome(self, None, FrozenInstanceError)
    ELSE Outcome(
            [self EXCEPT !.current_candle =
                [@ EXCEPT !.high_price = Max(@, price),
                          !.low_price = Min(@, price),
                          !.close_price = price,
                          !.volume = @ + quantity,
                          !.number_of_trades = @ + 1]],
            None, NoExc)

\* _close_current_candle with self.state = CLOSED moved in front of
\* candle.is_closed = True
_close_current_candle_state_first(self, ist_now) ==
    IF self.current_candle = None
    THEN Outcome(self, None, NoExc)
    ELSE IF Candle_frozen
    THEN Outcome([self EXCEPT !.state = CLOSED], None, FrozenInstanceError)
    ELSE LET candle == [self.current_candle EXCEPT !.is_closed = TRUE]
             verdict == validate_candle(candle, ist_now)
         IN IF verdict.valid
            THEN Outcome([self EXCEPT !.state = EMITTED, !.current_candle = None],
                         candle, NoExc)
            ELSE Outcome([self EXCEPT !.state = DROPPED, !.current_candle = None],
                         None, NoExc)

\* CandleBuilder._close_current_candle: candle.is_closed = True is its
\* first assignment, before self.state = CLOSED
_close_current_candle(self, ist_now) ==
    IF self.current_candle = None
    THEN Outcome(self, None, NoExc)
    ELSE IF Candle_frozen
    THEN Outcome(self, None, FrozenInstanceError)
    ELSE LET candle == [self.current_candle EXCEPT !.is_closed = TRUE]
             verdict == validate_candle(candle, ist_now)
         IN IF verdict.valid
            THEN Outcome([self EXCEPT !.state = EMITTED, !.current_candle = None],
                         candle, NoExc)
            ELSE Outcome([self EXCEPT !.state = DROPPED, !.current_candle = None],
                         None, NoExc)

\* the gate without the ordering defense
add_tick_gate_no_ordering(self, tick_time) ==
    IF tick_time.tz = "naive"
    THEN [self |-> self, admitted |-> FALSE, tick_time |-> tick_time]
    ELSE
    LET tt == IF tick_time.tz # self.tz THEN astimezone(tick_time, self.tz)
              ELSE tick_time
        s1 == [self EXCEPT !.last_tick_time = tt]
    IN [self |-> s1, admitted |-> _is_market_time(tt), tick_time |-> tt]

\* the gate with the watermark moved only after the market-hours gate
add_tick_gate_watermark_late(self, tick_time) ==
    IF tick_time.tz = "naive"
    THEN [self |-> self, admitted |-> FALSE, tick_time |-> tick_time]
    ELSE
    LET tt == IF tick_time.tz # self.tz THEN astimezone(tick_time, self.tz)
              ELSE tick_time
    IN
    IF self.last_tick_time # None /\ DtLess(tt, self.last_tick_time)
    THEN [self |-> self, admitted |-> FALSE, tick_time |-> tt]
    ELSE IF ~_is_market_time(tt)
    THEN [self |-> self, admitted |-> FALSE, tick_time |-> tt]
    ELSE [self |-> [self EXCEPT !.last_tick_time = tt], admitted |-> TRUE,
          tick_time |-> tt]

\* the gate taking a naive timestamp to be exchange time
add_tick_gate_naive_as_ist(self, tick_time) ==
    LET tt == IF tick_time.tz = "naive" THEN [tick_time EXCEPT !.tz = self.tz]
              ELSE IF tick_time.tz # self.tz THEN astimezone(tick_time, self.tz)
              ELSE tick_time
    IN
    IF self.last_tick_time # None /\ DtLess(tt, self.last_tick_time)
    THEN [self |-> self, admitted |-> FALSE, tick_time |-> tt]
    ELSE
    LET s1 == [self EXCEPT !.last_tick_time = tt] IN
    IF ~_is_market_time(tt)
    THEN [self |-> s1, admitted |-> FALSE, tick_time |-> tt]
    ELSE [self |-> s1, admitted |-> TRUE, tick_time |-> tt]

\* the gate with the watermark moved before the ordering defense
add_tick_gate_watermark_before_ordering(self, tick_time) ==
    IF tick_time.tz = "naive"
    THEN [self |-> self, admitted |-> FALSE, tick_time |-> tick_time]
    ELSE
    LET tt == IF tick_time.tz # self.tz THEN astimezone(tick_time, self.tz)
              ELSE tick_time
        s1 == [self EXCEPT !.last_tick_time = tt]
    IN
    IF self.last_tick_time # None /\ DtLess(tt, self.last_tick_time)
    THEN [self |-> s1, admitted |-> FALSE, tick_time |-> tt]
    ELSE IF ~_is_market_time(tt)
    THEN [self |-> s1, admitted |-> FALSE, tick_time |-> tt]
    ELSE [self |-> s1, admitted |-> TRUE, tick_time |-> tt]

\* the gate taking the wall-clock reading of a foreign zone as it is
add_tick_gate_no_conversion(self, tick_time) ==
    IF tick_time.tz = "naive"
    THEN [self |-> self, admitted |-> FALSE, tick_time |-> tick_time]
    ELSE
    LET tt == [tick_time EXCEPT !.tz = self.tz]
    IN
    IF self.last_tick_time # None /\ DtLess(tt, self.last_tick_time)
    THEN [self |-> self, admitted |-> FALSE, tick_time |-> tt]
    ELSE
    LET s1 == [self EXCEPT !.last_tick_time = tt] IN
    IF ~_is_market_time(tt)
    THEN [self |-> s1, admitted |-> FALSE, tick_time |-> tt]
    ELSE [self |-> s1, admitted |-> TRUE, tick_time |-> tt]

\* CandleBuilder.add_tick, lines 91-108: the admission gate.  Returns the
\* builder (with the watermark moved when the tick passed the ordering
\* defense), whether the tick goes on to the candle logic, and the tick's
\* time in the exchange zone.
add_tick_gate(self, tick_time) ==
    IF tick_time.tz = "naive"
    THEN [self |-> self, admitted |-> FALSE, tick_time |-> tick_time]
    ELSE
    LET tt == IF tick_time.tz # self.tz THEN astimezone(tick_time, self.tz)
              ELSE tick_time
    IN
    IF self.last_tick_time # None /\ DtLess(tt, self.last_tick_time)
    THEN [self |-> self, admitted |-> FALSE, tick_time |-> tt]
    ELSE
    LET s1 == [self EXCEPT !.last_tick_time = tt] IN
    IF ~_is_market_time(tt)
    THEN [self |-> s1, admitted |-> FALSE, tick_time |-> tt]
    ELSE [self |-> s1, admitted |-> TRUE, tick_time |-> tt]

\* CandleBuilder.add_tick(price, tick_time, quantity); ist_now is what the
\* clock reads if the call gets as far as validate_candle
add_tick(self, price, tick_time, quantity, ist_now) ==
    LET g == add_tick_gate(self, tick_time) IN
    IF ~g.admitted
    THEN Outcome(g.self, None, NoExc)
    ELSE
    LET s1 == g.self
        tt == g.tick_time
        boundary == get_candle_boundary(tt, s1.timeframe_seconds)
        candle_end == PlusSeconds(boundary, s1.timeframe_seconds)
    IN
    IF s1.current_candle = None
    THEN Outcome(_start_new_candle(s1, price, quantity, boundary, candle_end),
                 None, NoExc)
    ELSE IF DtLess(tt, s1.current_candle.close_time)
    THEN LET u == _update_candle(s1, price, quantity)
         IN Outcome(u.self, None, u.exc)
    ELSE
    LET c == _close_current_candle(s1, ist_now) IN
    IF c.exc # NoExc
    THEN Outcome(c.self, None, c.exc)
    ELSE
    LET new_boundary == get_candle_boundary(tt, s1.timeframe_seconds)
        new_end == PlusSeconds(new_boundary, s1.timeframe_seconds)
    IN Outcome(_start_new_candle(c.self, price, quantity, new_boundary, new_end),
               c.ret, NoExc)

\* ------------------------------------------------------------- inputs
\* (price, quantity) of the trades the ticks are drawn from
TradeSamples == {<<100, 5>>, <<102, 3>>, <<101, 1>>, <<100, 0>>}

\* exchange-local wall-clock readings the ticks are drawn from
SampleWalls ==
    {At(0, 9, 14, 59, 0), At(0, 9, 15, 0, 0), At(0, 9, 15, 10, 0),
     At(0, 9, 20, 0, 0), At(0, 9, 29, 59, SubSec - 1), At(0, 9, 30, 0, 0),
     At(0, 9, 45, 10, 0), At(0, 15, 20, 0, 0), At(0, 15, 30, 0, 0),
     At(0, 15, 30, 0, 1)}
    \cup {At(d, 9, 15, 0, 0) : d \in 1 .. MaxDay}

\* readings also sent as the same instant in UTC, and as naive datetimes
UtcWalls == {At(0, 9, 14, 59, 0), At(0, 9, 20, 0, 0), At(0, 9, 30, 0, 0)}
NaiveWalls == {At(0, 9, 14, 59, 0), At(0, 9, 20, 0, 0)}

TickTimes ==
    {[wall |-> w, tz |-> "IST"] : w \in SampleWalls}
    \cup {astimezone([wall |-> w, tz |-> "IST"], "UTC") : w \in UtcWalls}
    \cup {[wall |-> w, tz |-> "naive"] : w \in NaiveWalls}

Ticks ==
    {[price |-> pq[1], quantity |-> pq[2], tick_time |-> tt] :
        pq \in TradeSamples, tt \in TickTimes}

\* readings of the wall clock during a call: after every tick, and before
\* the first one (a clock that is behind)
Nows == {[wall |-> At(MaxDay + 1, 12, 0, 0, 0), tz |-> "IST"],
         [wall |-> At(0, 9, 0, 0, 0), tz |-> "IST"]}

\* the builders under test: (timeframe, timeframe_seconds)
TIMEFRAME_SECONDS == 15 * 60
Builders == {<<"FIFTEEN_MINUTE", TIMEFRAME_SECONDS>>, <<"FIVE_MINUTE", 5 * 60>>}
Symbol == "RELIANCE"

\* -------------------------------------------------------------- state
VARIABLES
    timeframe,          \* self.timeframe
    timeframe_seconds,  \* self.timeframe_seconds
    current_candle,     \* self.current_candle
    state,              \* self.state
    last_tick_time,     \* self.last_tick_time: the watermark
    tick,               \* the arguments of the latest add_tick call
    ret,                \* what that call returned (None or a Candle)
    exc,                \* the exception that call ended in, or NoExc
    clock,              \* the wall-clock reading during that call
    folded,             \* history: the ticks put into the in-progress bar
    v_candle,           \* validate_candle: the candle passed in
    v_now,              \* validate_candle: what datetime.now(IST) read
    v_verdict,          \* validate_candle: what it returned
    v_now2,             \* a second validate_candle call: the clock
    v_verdict2,         \* a second validate_candle call: what it returned
    b_time,             \* get_candle_boundary: tick_time
    b_seconds,          \* get_candle_boundary: timeframe_seconds
    b_out,              \* get_candle_boundary: what it returned
    h_interval,         \* fetch_candles: interval
    h_from,             \* fetch_candles: from_date
    h_to,               \* fetch_candles: to_date
    h_zone,             \* the system's local zone (read by astimezone)
    h_now,              \* fetch_candles: what datetime.now(IST) read
    h_raw,              \* fetch_candles: what _fetch_chunk returned, by chunk
    h_ret,              \* fetch_candles: the list returned
    h_exc,              \* fetch_candles: the exception raised, or NoExc
    r_unique,           \* candles table: (symbol, timeframe, open_time) is unique
    r_rows,             \* candles table: the committed rows
    r_candle,           \* insert_candle: the candle passed in
    r_outcome,          \* insert_candle: how the database answered
    r_exc,              \* insert_candle: the exception raised, or NoExc
    i_builders,         \* ingestion: self.builders, symbol -> CandleBuilder
    i_alone,            \* history: each builder fed its own symbol's ticks only
    i_message,          \* _on_data: the message passed in
    i_call,             \* _on_data: the arguments it gave add_tick, or None
    i_caught,           \* _on_data: the exception its handler caught, or NoExc
    i_escaped,          \* _on_data: the exception that left it, or NoExc
    c_start,            \* _chunk_date_range: start
    c_end,              \* _chunk_date_range: end
    c_max_days,         \* _chunk_date_range: max_days
    c_chunks,           \* _chunk_date_range: the pairs it yielded
    c_done              \* _chunk_date_range: the generator is exhausted

builderVars == <<timeframe, timeframe_seconds, current_candle, state,
                 last_tick_time, tick, ret, exc, clock, folded>>
validateVars == <<v_candle, v_now, v_verdict, v_now2, v_verdict2>>
boundaryVars == <<b_time, b_seconds, b_out>>
historicalVars == <<h_interval, h_from, h_to, h_zone, h_now, h_raw, h_ret, h_exc>>
repoVars == <<r_unique, r_rows, r_candle, r_outcome, r_exc>>
ingestionVars == <<i_builders, i_alone, i_message, i_call, i_caught, i_escaped>>
chunkVars == <<c_start, c_end, c_max_days, c_chunks, c_done>>
vars == <<builderVars, validateVars, boundaryVars, historicalVars, repoVars, ingestionVars, chunkVars>>

\* no call of validate_candle / get_candle_boundary on its own is under way
ValidateIdle ==
    /\ v_candle = None /\ v_now = None /\ v_verdict = None
    /\ v_now2 = None /\ v_verdict2 = None
BoundaryIdle == b_time = None /\ b_seconds = 0 /\ b_out = None
HistoricalIdle ==
    /\ h_interval = "" /\ h_from = None /\ h_to = None /\ h_zone = ""
    /\ h_now = None /\ h_raw = <<>> /\ h_ret = None /\ h_exc = NoExc
RepoIdle ==
    /\ r_unique = TRUE /\ r_rows = {} /\ r_candle = None
    /\ r_outcome = "" /\ r_exc = NoExc
IngestionIdle ==
    /\ i_builders = <<>> /\ i_alone = <<>> /\ i_message = None
    /\ i_call = None /\ i_caught = NoExc /\ i_escaped = NoExc
ChunkIdle ==
    /\ c_start = None /\ c_end = None /\ c_max_days = 0
    /\ c_chunks = <<>> /\ c_done = FALSE

\* the CandleBuilder object as the methods see it
Self ==
    [symbol |-> Symbol, timeframe |-> timeframe,
     timeframe_seconds |-> timeframe_seconds,
     current_candle |-> current_candle, state |-> state,
     last_tick_time |-> last_tick_time, tz |-> IST]

InitBuilderOf(b) ==
    /\ LET self == CandleBuilder(Symbol, b[1], b[2]) IN
        /\ timeframe = self.timeframe
        /\ timeframe_seconds = self.timeframe_seconds
        /\ current_candle = self.current_candle
        /\ state = self.state
        /\ last_tick_time = self.last_tick_time
    /\ tick = None
    /\ ret = None
    /\ exc = NoExc
    /\ clock = None
    /\ folded = <<>>

InitBuilder == \E b \in Builders : InitBuilderOf(b)

Init == InitBuilder /\ ValidateIdle /\ BoundaryIdle /\ HistoricalIdle /\ RepoIdle /\ IngestionIdle /\ ChunkIdle

\* one call builder.add_tick(t.price, t.tick_time, t.quantity)
Call(t, ist_now) ==
    \E o \in {add_tick(Self, t.price, t.tick_time, t.quantity, ist_now)} :
        /\ current_candle' = o.self.current_candle
        /\ state' = o.self.state
        /\ last_tick_time' = o.self.last_tick_time
        /\ timeframe' = o.self.timeframe
        /\ timeframe_seconds' = o.self.timeframe_seconds
        /\ tick' = t
        /\ ret' = o.ret
        /\ exc' = o.exc
        /\ clock' = ist_now
        /\ folded' =
            IF o.self.current_candle = current_candle THEN folded
            ELSE IF o.self.current_candle = None THEN <<>>
            ELSE IF o.self.current_candle.number_of_trades = 1 THEN <<t>>
            ELSE Append(folded, t)
        /\ UNCHANGED <<validateVars, boundaryVars, historicalVars, repoVars, ingestionVars, chunkVars>>

\* the clock is read only by a call that closes a candle
NoClock == None

\* the tick's time as add_tick sees it after the zone conversion
Local(t) == astimezone(t.tick_time, IST)
Aware(t) == t.tick_time.tz # "naive"
InOrder(t) ==
    IF last_tick_time = None THEN TRUE ELSE ~DtLess(Local(t), last_tick_time)

\* add_tick, by the path the call takes through it
AddTickNaive ==
    \E t \in Ticks : ~Aware(t) /\ Call(t, NoClock)

AddTickOutOfOrder ==
    \E t \in Ticks : Aware(t) /\ ~InOrder(t) /\ Call(t, NoClock)

AddTickOutsideSession ==
    \E t \in Ticks :
        Aware(t) /\ InOrder(t) /\ ~_is_market_time(Local(t)) /\ Call(t, NoClock)

AddTickStart ==
    \E t \in Ticks :
        /\ Aware(t) /\ InOrder(t) /\ _is_market_time(Local(t))
        /\ current_candle = None
        /\ Call(t, NoClock)

AddTickUpdate ==
    \E t \in Ticks :
        /\ Aware(t) /\ InOrder(t) /\ _is_market_time(Local(t))
        /\ current_candle # None
        /\ DtLess(Local(t), current_candle.close_time)
        /\ Call(t, NoClock)

AddTickClose ==
    \E t \in Ticks, n \in Nows :
        /\ Aware(t) /\ InOrder(t) /\ _is_market_time(Local(t))
        /\ current_candle # None
        /\ ~DtLess(Local(t), current_candle.close_time)
        /\ Call(t, n)

Next ==
    \/ AddTickNaive
    \/ AddTickOutOfOrder
    \/ AddTickOutsideSession
    \/ AddTickStart
    \/ AddTickUpdate
    \/ AddTickClose

Spec == Init /\ [][Next]_vars

\* ------------------------------------------- validate_candle on its own
\* the candles validate_candle is called with: every combination of
ValTimeframes ==
    {"FIFTEEN_MINUTE", "FIVE_MINUTE", "TEN_MINUTE", "THIRTY_MINUTE"}
ValOpenTimes ==
    {[wall |-> At(0, 9, 15, 0, 0), tz |-> "IST"],
     [wall |-> At(0, 9, 0, 0, 0), tz |-> "IST"],
     [wall |-> At(0, 9, 10, 0, 0), tz |-> "IST"],
     [wall |-> At(0, 15, 20, 0, 0), tz |-> "IST"],
     [wall |-> At(0, 9, 15, 0, 0), tz |-> "naive"],
     [wall |-> At(0, 9, 15, 0, 0) - (EpochDaysBack + 1) * SecondsPerDay * SubSec,
      tz |-> "IST"]}
\* close_time - open_time, in clock units: 5 and 15 minutes, exact and one
\* unit off either way, and an empty window
ValSpans ==
    {m * SecondsPerMinute * SubSec + d : m \in {5, 15}, d \in {-1, 0, 1}} \cup {0}
ValPrices == {0, 101, 102}
ValVolumes == {0, 1}
ValTrades == {-1, 0, 1}
ValModes == {"live", "historical"}

\* (open, high, low, close): every combination of the positive prices, and
\* the combinations with one price or all four prices not positive
ValQuotes ==
    {q \in ValPrices \X ValPrices \X ValPrices \X ValPrices :
        Cardinality({i \in 1 .. 4 : q[i] <= 0}) \in {0, 1, 4}}

ValCandles ==
    {Candle(Symbol, tf, q[1], q[2], q[3], q[4], v, n, ot, [ot EXCEPT !.wall = @ + span], closed, mode) :
        tf \in ValTimeframes, ot \in ValOpenTimes, span \in ValSpans,
        q \in ValQuotes,
        v \in ValVolumes, n \in ValTrades, closed \in BOOLEAN, mode \in ValModes}

\* readings of the wall clock during validate_candle: long after every
\* bar, exactly 60 seconds before the 09:15 open, and one clock unit
\* earlier than that
ValNows ==
    {[wall |-> At(MaxDay + 1, 12, 0, 0, 0), tz |-> "IST"],
     [wall |-> At(0, 9, 14, 0, 0), tz |-> "IST"],
     [wall |-> At(0, 9, 13, 59, SubSec - 1), tz |-> "IST"]}

InitValidate ==
    /\ InitBuilderOf(<<"FIFTEEN_MINUTE", TIMEFRAME_SECONDS>>)
    /\ HistoricalIdle
    /\ RepoIdle
    /\ IngestionIdle
    /\ ChunkIdle
    /\ BoundaryIdle
    /\ v_candle \in ValCandles
    /\ v_now = None
    /\ v_verdict = None
    /\ v_now2 = None
    /\ v_verdict2 = None

\* one call validate_candle(v_candle)
ValidateCall ==
    /\ v_verdict = None
    /\ \E n \in ValNows :
        /\ v_now' = n
        /\ v_verdict' = validate_candle(v_candle, n)
    /\ UNCHANGED <<v_candle, v_now2, v_verdict2, builderVars, boundaryVars, historicalVars, repoVars, ingestionVars, chunkVars>>

SpecValidate == InitValidate /\ [][ValidateCall]_vars

\* ------------------------------- validate_candle called twice on a bar
\* the closed live bars with one trade of volume 1
RevalCandles ==
    {c \in ValCandles :
        c.is_closed /\ c.mode = "live" /\ c.number_of_trades = 1 /\ c.volume = 1}

InitRevalidate ==
    /\ InitBuilderOf(<<"FIFTEEN_MINUTE", TIMEFRAME_SECONDS>>)
    /\ HistoricalIdle
    /\ RepoIdle
    /\ IngestionIdle
    /\ ChunkIdle
    /\ BoundaryIdle
    /\ v_candle \in RevalCandles
    /\ v_now = None
    /\ v_verdict = None
    /\ v_now2 = None
    /\ v_verdict2 = None

\* a second call validate_candle(v_candle), on the same field values, at
\* another reading of the clock
ValidateAgain ==
    /\ v_verdict # None
    /\ v_verdict2 = None
    /\ \E n \in ValNows :
        /\ v_now2' = n
        /\ v_verdict2' = validate_candle(v_candle, n)
    /\ UNCHANGED <<v_candle, v_now, v_verdict, builderVars, boundaryVars, historicalVars, repoVars, ingestionVars, chunkVars>>

NextRevalidate == ValidateCall \/ ValidateAgain

SpecRevalidate == InitRevalidate /\ [][NextRevalidate]_vars

\* --------------------------------------- get_candle_boundary on its own
Granularities == {m * SecondsPerMinute : m \in {1, 3, 5, 10, 15, 30}}
BoundaryTimes ==
    {[wall |-> At(d, h, m, sec, u), tz |-> "IST"] :
        d \in 0 .. MaxDay, h \in {9, 15, 23}, m \in 0 .. 59,
        sec \in {0, 59}, u \in {0, SubSec - 1}}

InitBoundary ==
    /\ InitBuilderOf(<<"FIFTEEN_MINUTE", TIMEFRAME_SECONDS>>)
    /\ HistoricalIdle
    /\ RepoIdle
    /\ IngestionIdle
    /\ ChunkIdle
    /\ ValidateIdle
    /\ b_time \in BoundaryTimes
    /\ b_seconds \in Granularities
    /\ b_out = None

\* one call get_candle_boundary(b_time, b_seconds)
BoundaryCall ==
    /\ b_out = None
    /\ b_out' = get_candle_boundary(b_time, b_seconds)
    /\ UNCHANGED <<b_time, b_seconds, builderVars, validateVars, historicalVars, repoVars, ingestionVars, chunkVars>>

SpecBoundary == InitBoundary /\ [][BoundaryCall]_vars

\* ------------------------------------- HistoricalDataFetcher (historical.py)
\* INTERVAL_MAX_DAYS: interval -> days one request may span
HistoricalIntervals ==
    {"ONE_MINUTE", "THREE_MINUTE", "FIVE_MINUTE", "TEN_MINUTE",
     "FIFTEEN_MINUTE", "THIRTY_MINUTE", "ONE_HOUR", "ONE_DAY"}
INTERVAL_MAX_DAYS(interval) ==
    CASE interval = "ONE_MINUTE" -> 30
      [] interval = "THREE_MINUTE" -> 60
      [] interval = "FIVE_MINUTE" -> 100
      [] interval = "TEN_MINUTE" -> 100
      [] interval = "FIFTEEN_MINUTE" -> 200
      [] interval = "THIRTY_MINUTE" -> 200
      [] interval = "ONE_HOUR" -> 400
      [] interval = "ONE_DAY" -> 2000

\* minutes_map of _infer_end_time
minutes_map(interval) ==
    CASE interval = "ONE_MINUTE" -> 1
      [] interval = "THREE_MINUTE" -> 3
      [] interval = "FIVE_MINUTE" -> 5
      [] interval = "TEN_MINUTE" -> 10
      [] interval = "FIFTEEN_MINUTE" -> 15
      [] interval = "THIRTY_MINUTE" -> 30
      [] interval = "ONE_HOUR" -> 60
      [] interval = "ONE_DAY" -> 1440

\* _infer_end_time(open_time, interval)
_infer_end_time(open_time, interval) ==
    PlusSeconds(open_time, minutes_map(interval) * SecondsPerMinute)

\* _chunk_date_range with chunk_end = cursor + delta, not clamped to end
RECURSIVE _chunk_date_range_unclamped(_, _, _)
_chunk_date_range_unclamped(start, end, max_days) ==
    IF ~DtLess(start, end) THEN <<>>
    ELSE LET next == PlusSeconds(start, max_days * SecondsPerDay)
         IN <<(<<start, next>>)>> \o _chunk_date_range_unclamped(next, end, max_days)

\* _chunk_date_range(start, end, max_days): the pairs it yields, in order
RECURSIVE _chunk_date_range(_, _, _)
_chunk_date_range(start, end, max_days) ==
    IF ~DtLess(start, end) THEN <<>>
    ELSE LET next == PlusSeconds(start, max_days * SecondsPerDay)
             chunk_end == IF DtLess(end, next) THEN end ELSE next
         IN <<(<<start, chunk_end>>)>> \o _chunk_date_range(chunk_end, end, max_days)

\* datetime.fromisoformat(ts).astimezone(IST): a text without an offset is
\* read in the system's local zone; a text that is no timestamp raises
ValueError == "ValueError"
ParseFails(ts) == ts.tz = "garbage"
ParseIst(ts, zone) ==
    IF ts.tz = "naive" THEN astimezone([ts EXCEPT !.tz = zone], IST)
    ELSE astimezone(ts, IST)

\* the Candle that _convert_and_validate builds from one row
RowCandle(row, symbol, interval, zone) ==
    LET open_time == ParseIst(row.ts, zone) IN
    Candle(symbol, interval, row.open, row.high, row.low, row.close,
           row.volume, 0, open_time, _infer_end_time(open_time, interval),
           TRUE, "historical")

\* _convert_and_validate that gives up at the first row it cannot parse
RECURSIVE _convert_and_validate_stops_at_error(_, _, _, _, _)
_convert_and_validate_stops_at_error(raw_data, symbol, interval, zone, ist_now) ==
    IF raw_data = <<>> THEN <<>>
    ELSE LET row == Head(raw_data) IN
         IF ParseFails(row.ts) THEN <<>>
         ELSE LET candle == RowCandle(row, symbol, interval, zone)
                  rest == _convert_and_validate_stops_at_error(
                              Tail(raw_data), symbol, interval, zone, ist_now)
              IN IF validate_candle(candle, ist_now).valid
                 THEN <<candle>> \o rest ELSE rest

\* _convert_and_validate(raw_data, symbol, interval): the rows in order, a
\* row that raises or is rejected left out
RECURSIVE _convert_and_validate(_, _, _, _, _)
_convert_and_validate(raw_data, symbol, interval, zone, ist_now) ==
    IF raw_data = <<>> THEN <<>>
    ELSE LET row == Head(raw_data)
             rest == _convert_and_validate(
                         Tail(raw_data), symbol, interval, zone, ist_now)
         IN IF ParseFails(row.ts) THEN rest
            ELSE LET candle == RowCandle(row, symbol, interval, zone)
                 IN IF validate_candle(candle, ist_now).valid
                    THEN <<candle>> \o rest ELSE rest

\* list.sort(key = lambda c: c.open_time): stable, ascending
RECURSIVE InsertByOpenTime(_, _)
InsertByOpenTime(c, sorted) ==
    IF sorted = <<>> THEN <<c>>
    ELSE IF DtLess(c.open_time, Head(sorted).open_time) THEN <<c>> \o sorted
    ELSE <<Head(sorted)>> \o InsertByOpenTime(c, Tail(sorted))
RECURSIVE SortByOpenTime(_)
SortByOpenTime(candles) ==
    IF candles = <<>> THEN <<>>
    ELSE InsertByOpenTime(candles[Len(candles)],
                          SortByOpenTime(SubSeq(candles, 1, Len(candles) - 1)))

\* the loop of fetch_candles over the chunks: all_candles.extend(candles)
RECURSIVE ExtendAll(_, _, _, _, _)
ExtendAll(raws, symbol, interval, zone, ist_now) ==
    IF raws = <<>> THEN <<>>
    ELSE _convert_and_validate(Head(raws), symbol, interval, zone, ist_now)
         \o ExtendAll(Tail(raws), symbol, interval, zone, ist_now)

\* _fetch_chunk returns response.get("data", []): a response that carries
\* "data": null hands None to _convert_and_validate, whose
\* `for row in raw_data` stands outside the try and raises TypeError
NullData == <<None>>
TypeError == "TypeError"
NotIterable(raws) == \E i \in 1 .. Len(raws) : raws[i] = NullData

\* fetch_candles returning all_candles as the chunks left it
fetch_candles_unsorted(symbol, interval, raws, zone, ist_now) ==
    IF interval \notin HistoricalIntervals
    THEN [ret |-> None, exc |-> ValueError]
    ELSE IF NotIterable(raws)
    THEN [ret |-> None, exc |-> TypeError]
    ELSE [ret |-> ExtendAll(raws, symbol, interval, zone, ist_now),
          exc |-> NoExc]

\* fetch_candles(symbol, interval, from_date, to_date); raws[i] is what
\* _fetch_chunk returned for the i-th pair of _chunk_date_range
fetch_candles(symbol, interval, raws, zone, ist_now) ==
    IF interval \notin HistoricalIntervals
    THEN [ret |-> None, exc |-> ValueError]
    ELSE IF NotIterable(raws)
    THEN [ret |-> None, exc |-> TypeError]
    ELSE [ret |-> SortByOpenTime(ExtendAll(raws, symbol, interval, zone, ist_now)),
          exc |-> NoExc]

\* the rows a provider response is made of: (timestamp text, open, high,
\* low, close, volume)
Row(ts, o, h, l, c, v) ==
    [ts |-> ts, open |-> o, high |-> h, low |-> l, close |-> c, volume |-> v]
HistRows ==
    {Row([wall |-> At(0, 9, 15, 0, 0), tz |-> "IST"], 101, 102, 101, 102, 8),
     Row([wall |-> At(0, 9, 30, 0, 0), tz |-> "IST"], 102, 102, 101, 101, 1),
     Row([wall |-> At(1, 9, 15, 0, 0), tz |-> "IST"], 101, 101, 101, 101, 1),
     Row([wall |-> At(0, 3, 45, 0, 0), tz |-> "UTC"], 101, 102, 101, 101, 1),
     Row([wall |-> At(0, 9, 45, 0, 0), tz |-> "IST"], 101, 101, 101, 102, 1),
     Row([wall |-> At(0, 10, 0, 0, 0), tz |-> "IST"], 101, 101, 101, 101, 0),
     Row([wall |-> At(0, 9, 15, 0, 0), tz |-> "naive"], 102, 102, 102, 102, 1),
     Row([wall |-> 0, tz |-> "garbage"], 101, 101, 101, 101, 1)}

\* what _fetch_chunk returns: no rows (also on an API error), one row,
\* two rows in either order, or the null of a response without data
HistResponses ==
    {<<>>, NullData} \cup {<<r>> : r \in HistRows}
           \cup {<<r, q>> : r \in HistRows, q \in HistRows}

HistIntervalSamples == HistoricalIntervals \cup {"ONE_WEEK"}
HistFrom == [wall |-> At(0, 0, 0, 0, 0), tz |-> "IST"]
\* to_date: before from_date, equal to it, and 1 and 45 days after it
HistTo ==
    {PlusSeconds(HistFrom, d * SecondsPerDay) : d \in {0 - 1, 0, 1, 45}}
SystemZones == {"IST", "UTC"}

InitHistorical ==
    /\ InitBuilderOf(<<"FIFTEEN_MINUTE", TIMEFRAME_SECONDS>>)
    /\ RepoIdle
    /\ IngestionIdle
    /\ ChunkIdle
    /\ ValidateIdle
    /\ BoundaryIdle
    /\ h_interval \in HistIntervalSamples
    /\ h_from = HistFrom
    /\ h_to \in HistTo
    /\ h_zone \in SystemZones
    /\ h_now = None
    /\ h_raw = <<>>
    /\ h_ret = None
    /\ h_exc = NoExc

\* the number of requests fetch_candles makes
ChunkCount(interval, from_date, to_date) ==
    IF interval \notin HistoricalIntervals THEN 0
    ELSE Len(_chunk_date_range(from_date, to_date, INTERVAL_MAX_DAYS(interval)))

\* one call fetch_candles(..., h_interval, h_from, h_to)
FetchCandles ==
    /\ h_now = None
    /\ \E n \in Nows :
       \E raws \in [1 .. ChunkCount(h_interval, h_from, h_to) -> HistResponses] :
       \E o \in {fetch_candles(Symbol, h_interval, raws, h_zone, n)} :
        /\ h_now' = n
        /\ h_raw' = raws
        /\ h_ret' = o.ret
        /\ h_exc' = o.exc
    /\ UNCHANGED <<h_interval, h_from, h_to, h_zone, builderVars, validateVars, boundaryVars, repoVars, ingestionVars, chunkVars>>

SpecHistorical == InitHistorical /\ [][FetchCandles]_vars

\* ------------------------------------------ _chunk_date_range on its own
MaxChunkDays == 3
ChunkStarts ==
    {[wall |-> At(0, 0, 0, 0, 0), tz |-> "IST"],
     [wall |-> At(0, 9, 15, 0, 0), tz |-> "IST"]}
\* end - start, in clock units: before and on start, one unit after it,
\* around whole days, and days apart
ChunkSpans ==
    {0 - SecondsPerDay * SubSec, 0, 1} \cup
    {d * SecondsPerDay * SubSec + e : d \in {1, 2, 3, 6, 7}, e \in {0 - 1, 0, 1}}

InitChunk ==
    /\ InitBuilderOf(<<"FIFTEEN_MINUTE", TIMEFRAME_SECONDS>>)
    /\ ValidateIdle
    /\ BoundaryIdle
    /\ HistoricalIdle
    /\ RepoIdle
    /\ IngestionIdle
    /\ c_start \in ChunkStarts
    /\ \E span \in ChunkSpans : c_end = [c_start EXCEPT !.wall = @ + span]
    /\ c_max_days \in 1 .. MaxChunkDays
    /\ c_chunks = <<>>
    /\ c_done = FALSE

\* the caller's for loop runs the generator to its end
ChunkCall ==
    /\ ~c_done
    /\ c_chunks' = _chunk_date_range(c_start, c_end, c_max_days)
    /\ c_done' = TRUE
    /\ UNCHANGED <<c_start, c_end, c_max_days, builderVars, validateVars, boundaryVars, historicalVars, repoVars, ingestionVars>>

SpecChunk == InitChunk /\ [][ChunkCall]_vars

\* ---------------------------------------------- app/data/persistence.py
\* The candles table is the set of its committed rows; a row holds the
\* twelve columns of the INSERT, which are the twelve fields of the Candle.
\* How one call's statements are answered by the database:
\* "connection lost": the server connection drops while the statement
\* runs, so cursor.execute raises and the connection is closed.
StorageOutcomes == {"ok", "execute fails", "commit fails", "connection lost"}
InterfaceError == "InterfaceError"

\* the columns the ON CONFLICT clause names
ConflictKey(row) == <<row.symbol, row.timeframe, Instant(row.open_time)>>

\* ON CONFLICT (symbol, timeframe, open_time) names a unique index of the
\* table: without one the database rejects the statement.
ExecuteRaises(self, outcome) ==
    outcome \in {"execute fails", "connection lost"} \/ ~self.unique

\* except Exception: self.conn.rollback() stands unguarded in the handler;
\* on a closed connection it raises, and that exception leaves insert_candle.
Rollback(outcome) == IF outcome = "connection lost" THEN InterfaceError ELSE NoExc

\* INSERT ... ON CONFLICT DO UPDATE: the new row replaces the stored one
insert_candle_overwrites(self, candle, outcome) ==
    IF ExecuteRaises(self, outcome) \/ outcome = "commit fails"
    THEN [rows |-> self.rows, exc |-> Rollback(outcome)]
    ELSE [rows |-> {row \in self.rows : ConflictKey(row) # ConflictKey(candle)}
                       \cup {candle},
          exc |-> NoExc]

\* PostgresCandleRepository.insert_candle(candle): the table afterwards and
\* the exception that reaches the caller. The connection has autocommit
\* off: the statement's effect is pending until conn.commit().
insert_candle(self, candle, outcome) ==
    IF ExecuteRaises(self, outcome)
    THEN \* cursor.execute raised: except -> conn.rollback()
         [rows |-> self.rows, exc |-> Rollback(outcome)]
    ELSE LET pending ==
                 IF \E row \in self.rows : ConflictKey(row) = ConflictKey(candle)
                 THEN self.rows                      \* DO NOTHING
                 ELSE self.rows \cup {candle}
         IN  IF outcome = "commit fails"
             THEN \* conn.commit raised: except -> conn.rollback()
                  [rows |-> self.rows, exc |-> Rollback(outcome)]
             ELSE [rows |-> pending, exc |-> NoExc]

RepoSymbols == {Symbol, "TCS"}
RepoTimeframes == {"FIFTEEN_MINUTE", "FIVE_MINUTE"}
RepoOpenTimes ==
    {[wall |-> At(0, 9, 15, 0, 0), tz |-> "IST"],
     [wall |-> At(0, 9, 30, 0, 0), tz |-> "IST"]}
RepoCloses == {101, 102}
\* the keys drawn: one key and the three that differ from it in one column
RepoKeys ==
    LET first == CHOOSE ot \in RepoOpenTimes :
                    \A other \in RepoOpenTimes : DtLeq(ot, other)
    IN {<<sy, tf, ot>> \in RepoSymbols \X RepoTimeframes \X RepoOpenTimes :
            (IF sy = Symbol THEN 0 ELSE 1) + (IF tf = "FIFTEEN_MINUTE" THEN 0 ELSE 1)
                + (IF ot = first THEN 0 ELSE 1) <= 1}
\* closed bars as the builder and the historical fetcher hand them over;
\* two bars for every key, differing in the close price
RepoCandles ==
    {Candle(k[1], k[2], 101, 102, 101, cl, 1, 0, k[3],
            PlusSeconds(k[3], ALLOWED_TIMEFRAMES(k[2])), TRUE, "historical") :
        k \in RepoKeys, cl \in RepoCloses}

InitRepo ==
    /\ InitBuilderOf(<<"FIFTEEN_MINUTE", TIMEFRAME_SECONDS>>)
    /\ ValidateIdle
    /\ BoundaryIdle
    /\ HistoricalIdle
    /\ IngestionIdle
    /\ ChunkIdle
    /\ r_unique \in BOOLEAN
    /\ r_rows = {}
    /\ r_candle = None
    /\ r_outcome = ""
    /\ r_exc = NoExc

\* one call repository.insert_candle(c)
InsertCandle ==
    /\ \E c \in RepoCandles, outcome \in StorageOutcomes :
       \E o \in {insert_candle([rows |-> r_rows, unique |-> r_unique], c, outcome)} :
        /\ r_candle' = c
        /\ r_outcome' = outcome
        /\ r_rows' = o.rows
        /\ r_exc' = o.exc
    /\ UNCHANGED <<r_unique, builderVars, validateVars, boundaryVars, historicalVars, ingestionVars, chunkVars>>

SpecRepo == InitRepo /\ [][InsertCandle]_vars

\* ------------------------------------------------ app/data/ingestion.py
\* A message is a dict; message.get(key) is modelled as <<>> for a key the
\* message omits (None) and <<v>> for a key it carries.
Absent == <<>>
Some(v) == <<v>>
Message(token, price, quantity, ts) ==
    [token |-> token, last_traded_price |-> price,
     last_traded_quantity |-> quantity, exchange_timestamp |-> ts]

\* symbol_token_map as given to the constructor, and self.builders
symbol_token_map == [sy \in {"RELIANCE", "TCS", "INFY"} |->
    CASE sy = "RELIANCE" -> "2885" [] sy = "TCS" -> "11536" [] OTHER -> "1594"]
BuilderSymbols == {"RELIANCE", "TCS"}

\* AngelWebSocketIngestion._symbol_from_token: token_symbol_map.get(token),
\* <<>> for a token no symbol has
_symbol_from_token(token) ==
    LET found == {sy \in DOMAIN symbol_token_map : symbol_token_map[sy] = token}
    IN IF found = {} THEN Absent ELSE Some(CHOOSE sy \in found : TRUE)

\* datetime.fromtimestamp(exchange_ts / 1000, tz=IST): exchange_ts is in
\* milliseconds, counted here from 00:00 UTC of day 0
fromtimestamp(exchange_ts) ==
    [wall |-> (exchange_ts * SubSec) \div 1000 + utcoffset(IST) * SubSec,
     tz |-> IST]

\* price = price / 100: paise to rupees (the prices drawn are whole rupees)
Rupees(price) == price \div 100

\* quantity or 1
QuantityOr1(quantity) ==
    IF quantity = Absent THEN 1 ELSE IF quantity[1] = 0 THEN 1 ELSE quantity[1]

CallbackError == "CallbackError"
\* what the on_candle_closed callback is and does
Callbacks == {"not set", "returns", "raises"}

Handled(builders, call, caught) ==
    [builders |-> builders, call |-> call, caught |-> caught, escaped |-> NoExc]

\* _on_data handing the tick to every builder instead of the symbol's own
_on_data_broadcast(builders, message, ist_now, callback) ==
    IF \/ message.token = Absent
       \/ message.last_traded_price = Absent
       \/ message.exchange_timestamp = Absent
       \/ _symbol_from_token(message.token[1]) = Absent
    THEN Handled(builders, None, NoExc)
    ELSE
    LET symbol == _symbol_from_token(message.token[1])[1]
        price == Rupees(message.last_traded_price[1])
        tick_time == fromtimestamp(message.exchange_timestamp[1])
        quantity == QuantityOr1(message.last_traded_quantity)
    IN IF symbol \notin DOMAIN builders
       THEN Handled(builders, None, NoExc)
       ELSE Handled([sy \in DOMAIN builders |->
                        add_tick(builders[sy], price, tick_time, quantity, ist_now).self],
                    [symbol |-> symbol, price |-> price, quantity |-> quantity,
                     tick_time |-> tick_time],
                    add_tick(builders[symbol], price, tick_time, quantity, ist_now).exc)

\* AngelWebSocketIngestion._on_data(wsapp, message): the builders afterwards,
\* the arguments given to add_tick (None when it was not called), the
\* exception the except block caught and the exception that left the handler
_on_data(builders, message, ist_now, callback) ==
    IF \/ message.token = Absent
       \/ message.last_traded_price = Absent
       \/ message.exchange_timestamp = Absent
    THEN Handled(builders, None, NoExc)          \* TICK_DROPPED_MISSING_FIELD
    ELSE
    LET price == Rupees(message.last_traded_price[1])
        symbol == _symbol_from_token(message.token[1])
    IN
    IF symbol = Absent
    THEN Handled(builders, None, NoExc)          \* TICK_DROPPED_UNKNOWN_SYMBOL
    ELSE
    LET tick_time == fromtimestamp(message.exchange_timestamp[1]) IN
    IF symbol[1] \notin DOMAIN builders
    THEN Handled(builders, None, NoExc)          \* builder is None
    ELSE
    LET quantity == QuantityOr1(message.last_traded_quantity)
        call == [symbol |-> symbol[1], price |-> price, quantity |-> quantity,
                 tick_time |-> tick_time]
        o == add_tick(builders[symbol[1]], price, tick_time, quantity, ist_now)
        after == [builders EXCEPT ![symbol[1]] = o.self]
    IN
    IF o.exc # NoExc
    THEN Handled(after, call, o.exc)             \* except Exception
    ELSE IF o.ret # None /\ callback = "raises"
    THEN Handled(after, call, CallbackError)     \* except Exception
    ELSE Handled(after, call, NoExc)

\* the messages the feed sends: paise, milliseconds, optional fields
MessageTokens == {Some(symbol_token_map[sy]) : sy \in BuilderSymbols}
MessagePrices == {Some(10000), Some(10200)}
MessageQuantities == {Absent, Some(0), Some(5)}
MessageWalls == {At(0, 9, 15, 0, 0), At(0, 9, 20, 0, 0), At(0, 9, 30, 0, 0)}
MessageTimestamps ==
    {Some((Instant([wall |-> w, tz |-> IST]) * 1000) \div SubSec) : w \in MessageWalls}
\* complete messages for the symbols that have a builder
CompleteMessages ==
    {Message(tok, p, q, ts) :
        tok \in MessageTokens, p \in MessagePrices,
        q \in MessageQuantities, ts \in MessageTimestamps}
\* messages with a field missing, for a token no symbol has, and for a
\* subscribed symbol that has no builder
DefectiveMessages ==
    LET m == CHOOSE c \in CompleteMessages : c.last_traded_quantity # Absent IN
    {[m EXCEPT !.token = Absent], [m EXCEPT !.last_traded_price = Absent],
     [m EXCEPT !.exchange_timestamp = Absent], [m EXCEPT !.token = Some("0")],
     [m EXCEPT !.token = Some(symbol_token_map["INFY"])]}
Messages == CompleteMessages \cup DefectiveMessages

InitIngestion ==
    /\ InitBuilderOf(<<"FIFTEEN_MINUTE", TIMEFRAME_SECONDS>>)
    /\ ValidateIdle
    /\ BoundaryIdle
    /\ HistoricalIdle
    /\ RepoIdle
    /\ ChunkIdle
    /\ i_builders = [sy \in BuilderSymbols |->
                        CandleBuilder(sy, "FIFTEEN_MINUTE", TIMEFRAME_SECONDS)]
    /\ i_alone = [sy \in BuilderSymbols |->
                        CandleBuilder(sy, "FIFTEEN_MINUTE", TIMEFRAME_SECONDS)]
    /\ i_message = None
    /\ i_call = None
    /\ i_caught = NoExc
    /\ i_escaped = NoExc

\* the builder of the message's symbol, fed the message's tick with no
\* other builder around
FedAlone(alone, call, ist_now) ==
    IF call = None THEN alone
    ELSE [alone EXCEPT ![call.symbol] =
            add_tick(@, call.price, call.tick_time, call.quantity, ist_now).self]

\* the feed delivers one message: ws.on_data = self._on_data
OnData ==
    /\ \E m \in Messages, n \in Nows, cb \in Callbacks :
       \E o \in {_on_data(i_builders, m, n, cb)} :
        /\ i_message' = m
        /\ i_builders' = o.builders
        /\ i_call' = o.call
        /\ i_caught' = o.caught
        /\ i_escaped' = o.escaped
        /\ i_alone' = FedAlone(i_alone, o.call, n)
    /\ UNCHANGED <<builderVars, validateVars, boundaryVars, historicalVars, repoVars, chunkVars>>

SpecIngestion == InitIngestion /\ [][OnData]_vars

\* ---------------------------------------------------------- properties
\* In the action formulas below the unprimed variables are the builder
\* before a call and tick', ret', exc' are the call's arguments and outcome.

SessionStart == TimeOf(9, 15)
SessionEnd == TimeOf(15, 30)
InSession(t) ==
    LET tod == TimeOfDay(Local(t)) IN SessionStart <= tod /\ tod <= SessionEnd
OutsideSession(t) ==
    LET tod == TimeOfDay(Local(t)) IN tod < SessionStart \/ tod > SessionEnd

\* the tick passes the three admission checks
Admitted(t) == Aware(t) /\ InOrder(t) /\ InSession(t)

\* the call returned normally and produced no bar
ReturnedNothing == ret' = None /\ exc' = NoExc
BuilderUnchanged == UNCHANGED <<current_candle, state, last_tick_time>>

\* start of the period of `seconds` seconds that contains dt
PeriodStart(dt, seconds) == [dt EXCEPT !.wall = @ - (@ % (seconds * SubSec))]

\* the in-progress bar as a closed Bar
Closed(c) == [c EXCEPT !.is_closed = TRUE]

RECURSIVE MaxPriceOf(_), MinPriceOf(_), SumQuantity(_)
MaxPriceOf(ts) ==
    IF Len(ts) = 1 THEN ts[1].price ELSE Max(ts[1].price, MaxPriceOf(Tail(ts)))
MinPriceOf(ts) ==
    IF Len(ts) = 1 THEN ts[1].price ELSE Min(ts[1].price, MinPriceOf(Tail(ts)))
SumQuantity(ts) ==
    IF ts = <<>> THEN 0 ELSE ts[1].quantity + SumQuantity(Tail(ts))

\* C1: every add_tick call returns normally (a Bar or nothing); none ends
\* in an exception.
C1_NoCallRaises == exc = NoExc

\* C2: when an admitted tick closes the in-progress bar and the bar is
\* valid, the call returns a Bar that summarises the ticks folded into the
\* bar: open = first price, high = max, low = min, close = last price,
\* volume = sum of quantities, trade count = their number; the closing
\* tick contributes to none of them.
C2_ClosedBarSummarisesWindow ==
    [][LET t == tick' IN
       (/\ Admitted(t)
        /\ current_candle # None
        /\ ~DtLess(Local(t), current_candle.close_time)
        /\ validate_candle(Closed(current_candle), clock').valid)
       => /\ exc' = NoExc
          /\ ret' # None
          /\ ret'.open_time = current_candle.open_time
          /\ ret'.close_time = current_candle.close_time
          /\ ret'.open_price = folded[1].price
          /\ ret'.high_price = MaxPriceOf(folded)
          /\ ret'.low_price = MinPriceOf(folded)
          /\ ret'.close_price = folded[Len(folded)].price
          /\ ret'.volume = SumQuantity(folded)
          /\ ret'.number_of_trades = Len(folded)]_vars

\* C3: an admitted tick before the in-progress bar's close_time returns
\* nothing and updates the bar in place: high = max(high, price),
\* low = min(low, price), close = price, volume + quantity, trade count + 1,
\* open price and window unchanged.
C3_UpdateInPlace ==
    [][LET t == tick' IN
       (/\ Admitted(t)
        /\ current_candle # None
        /\ DtLess(Local(t), current_candle.close_time))
       => /\ ReturnedNothing
          /\ current_candle' =
                [current_candle EXCEPT
                    !.high_price = Max(@, t.price),
                    !.low_price = Min(@, t.price),
                    !.close_price = t.price,
                    !.volume = @ + t.quantity,
                    !.number_of_trades = @ + 1]]_vars

\* C4: an admitted tick exactly on the in-progress bar's close_time closes
\* that bar once (emitted or dropped) and in the same call starts one new
\* bar on the tick's own boundary, seeded with the tick.
C4_TickOnCloseTimeRestarts ==
    [][LET t == tick' IN
       (/\ Admitted(t)
        /\ current_candle # None
        /\ Instant(Local(t)) = Instant(current_candle.close_time))
       => /\ exc' = NoExc
          /\ ret' \in {None, Closed(current_candle)}
          /\ state' = BUILDING
          /\ current_candle' =
                Candle(Symbol, timeframe, t.price, t.price, t.price, t.price,
                       t.quantity, 1,
                       PeriodStart(Local(t), timeframe_seconds),
                       PlusSeconds(PeriodStart(Local(t), timeframe_seconds),
                                   timeframe_seconds),
                       FALSE, "live")]_vars

\* C5: a tick strictly older than the watermark is rejected: nothing is
\* returned and the bar, the lifecycle state and the watermark stay as
\* they were.
C5_OutOfOrderRejected ==
    [][LET t == tick' IN
       (/\ Aware(t)
        /\ last_tick_time # None
        /\ Instant(Local(t)) < Instant(last_tick_time))
       => ReturnedNothing /\ BuilderUnchanged]_vars

\* C5 case: an out-of-order tick was offered while a bar was in progress
C5_Witness ==
    /\ tick # None /\ Aware(tick)
    /\ last_tick_time # None
    /\ Instant(Local(tick)) < Instant(last_tick_time)
    /\ current_candle # None
    /\ ret = None /\ exc = NoExc

\* C6: a tick with the watermark's own timestamp is admitted; in session
\* and inside the in-progress bar's window it is folded into the bar:
\* trade count + 1, volume + quantity.
C6_EqualTimestampFolded ==
    [][LET t == tick' IN
       (/\ Aware(t)
        /\ last_tick_time # None
        /\ Instant(Local(t)) = Instant(last_tick_time)
        /\ InSession(t)
        /\ current_candle # None
        /\ DtLeq(current_candle.open_time, Local(t))
        /\ DtLess(Local(t), current_candle.close_time))
       => /\ ReturnedNothing
          /\ current_candle' # None
          /\ current_candle'.number_of_trades = current_candle.number_of_trades + 1
          /\ current_candle'.volume = current_candle.volume + t.quantity]_vars

\* C7: a tick whose exchange-local time of day is outside [09:15:00,
\* 15:30:00] returns nothing, creates no bar, leaves the in-progress bar
\* as it is and never closes it, even at or after the bar's close_time.
C7_OutsideSessionRejected ==
    [][LET t == tick' IN
       (Aware(t) /\ OutsideSession(t))
       => ReturnedNothing /\ UNCHANGED <<current_candle, state>>]_vars

\* C7 case: an outside-session tick that passed the ordering check arrived
\* at or after the close_time of the bar in progress
C7_Witness ==
    /\ tick # None /\ Aware(tick) /\ OutsideSession(tick)
    /\ last_tick_time = Local(tick)
    /\ current_candle # None
    /\ ~DtLess(Local(tick), current_candle.close_time)
    /\ state = BUILDING /\ ret = None /\ exc = NoExc

\* C8: the ordering check runs before the session check: an
\* outside-session tick that passes ordering becomes the watermark, the
\* watermark never moves back, and an in-session tick older than the
\* watermark is rejected as out of order.
C8_WatermarkAdvancesOutsideSession ==
    [][LET t == tick' IN
       /\ (Aware(t) /\ InOrder(t) /\ OutsideSession(t))
            => last_tick_time' = Local(t)
       /\ last_tick_time # None
            => /\ last_tick_time' # None
               /\ Instant(last_tick_time') >= Instant(last_tick_time)
       /\ (/\ Aware(t) /\ InSession(t)
           /\ last_tick_time # None
           /\ Instant(Local(t)) < Instant(last_tick_time))
            => ReturnedNothing /\ BuilderUnchanged]_vars

\* C8 case: an in-session tick was rejected for being older than a
\* watermark that an outside-session tick had set
C8_Witness ==
    /\ tick # None /\ Aware(tick) /\ InSession(tick)
    /\ last_tick_time # None
    /\ TimeOfDay(last_tick_time) > SessionEnd
    /\ Instant(Local(tick)) < Instant(last_tick_time)
    /\ ret = None /\ exc = NoExc

\* C9: a tick without a time zone is rejected before any other check:
\* nothing is returned and the watermark, the bar and the lifecycle state
\* do not change.
C9_NaiveRejected ==
    [][~Aware(tick') => ReturnedNothing /\ BuilderUnchanged]_vars

\* C9 case: a naive tick whose reading, taken as exchange time, is in
\* session, newer than the watermark and inside the bar in progress
C9_Witness ==
    /\ tick # None /\ ~Aware(tick)
    /\ current_candle # None
    /\ last_tick_time # None
    /\ last_tick_time.wall < tick.tick_time.wall
    /\ tick.tick_time.wall < current_candle.close_time.wall
    /\ ret = None /\ exc = NoExc

\* C10: an admitted tick one or more whole periods after the in-progress
\* bar's close_time yields at most the one bar that was in progress and
\* opens the new bar on the tick's own boundary, not at the old close_time.
C10_GapOpensAtTickBoundary ==
    [][LET t == tick' IN
       (/\ Admitted(t)
        /\ current_candle # None
        /\ Instant(Local(t)) >=
              Instant(PlusSeconds(current_candle.close_time, timeframe_seconds)))
       => /\ exc' = NoExc
          /\ ret' \in {None, Closed(current_candle)}
          /\ current_candle' # None
          /\ current_candle'.open_time = PeriodStart(Local(t), timeframe_seconds)
          /\ current_candle'.open_time # current_candle.close_time]_vars

\* C12: when an admitted tick closes the in-progress bar and the bar fails
\* validation, the call raises nothing, returns nothing, and leaves a new
\* in-progress bar seeded with the closing tick on the tick's own boundary,
\* as after a valid close.
C12_InvalidCloseDropsAndRestarts ==
    [][LET t == tick' IN
       (/\ Admitted(t)
        /\ current_candle # None
        /\ ~DtLess(Local(t), current_candle.close_time)
        /\ ~validate_candle(Closed(current_candle), clock').valid)
       => /\ ReturnedNothing
          /\ state' = BUILDING
          /\ current_candle' =
                Candle(Symbol, timeframe, t.price, t.price, t.price, t.price,
                       t.quantity, 1,
                       PeriodStart(Local(t), timeframe_seconds),
                       PlusSeconds(PeriodStart(Local(t), timeframe_seconds),
                                   timeframe_seconds),
                       FALSE, "live")]_vars

\* the accumulator is EMPTY: no in-progress bar, state unset
IsEmpty == current_candle = None /\ state = StateNone
\* the accumulator is BUILDING: one open in-progress bar
IsBuilding ==
    state = BUILDING /\ current_candle # None /\ ~current_candle.is_closed

\* C14: between calls the accumulator is EMPTY or BUILDING, so CLOSED,
\* EMITTED and DROPPED are never seen after a call; and once it is BUILDING
\* it is BUILDING after every later call.
C14_EmptyOrBuildingBetweenCalls ==
    /\ [](IF current_candle = None THEN IsEmpty ELSE IsBuilding)
    /\ [][IsBuilding => IsBuilding']_vars

\* C14 case: a call whose admitted tick was at or past the in-progress
\* bar's close_time has ended, and the accumulator is BUILDING
C14_Witness ==
    /\ tick # None /\ Aware(tick) /\ InSession(tick)
    /\ IsBuilding
    /\ last_tick_time = Local(tick)
    /\ ~DtLess(Local(tick), current_candle.close_time)

\* C15: an in-progress bar always has high >= open, low, close, low <= open,
\* close, trade count >= 1, close_time = open_time + timeframe duration,
\* and an open_time that is the start of its own period.
C15_InProgressBarInvariant ==
    current_candle # None =>
        /\ current_candle.high_price >= current_candle.open_price
        /\ current_candle.high_price >= current_candle.low_price
        /\ current_candle.high_price >= current_candle.close_price
        /\ current_candle.low_price <= current_candle.open_price
        /\ current_candle.low_price <= current_candle.close_price
        /\ current_candle.number_of_trades >= 1
        /\ current_candle.close_time =
              PlusSeconds(current_candle.open_time, timeframe_seconds)
        /\ PeriodStart(current_candle.open_time, timeframe_seconds) =
              current_candle.open_time

\* C15 case: a bar is in progress, seeded by a tick inside its period and
\* followed by a later admitted tick of the same period
C15_Witness ==
    /\ current_candle # None
    /\ tick # None /\ Aware(tick) /\ InSession(tick)
    /\ last_tick_time = Local(tick)
    /\ DtLess(current_candle.open_time, Local(tick))
    /\ DtLess(Local(tick), current_candle.close_time)
    /\ tick.price # current_candle.open_price

\* C16: for every timestamp t and every granularity of 1, 3, 5, 10, 15 or
\* 30 minutes, boundary(t) <= t < boundary(t) + granularity, boundary(t)
\* has zero seconds and sub-seconds and a minute-of-hour that is a multiple
\* of the granularity, and boundary(boundary(t)) = boundary(t).
C16_BoundaryAlignsAndIsIdempotent ==
    b_out # None =>
        /\ b_out.tz = b_time.tz
        /\ b_out.wall <= b_time.wall
        /\ b_time.wall < b_out.wall + b_seconds * SubSec
        /\ b_out.wall % (SecondsPerMinute * SubSec) = 0
        /\ MinuteOf(b_out) % (b_seconds \div SecondsPerMinute) = 0
        /\ get_candle_boundary(b_out, b_seconds) = b_out

\* C16 case: the boundary of a timestamp with non-zero seconds and
\* sub-seconds, more than a minute into a 3-minute period late in the hour
C16_Witness ==
    /\ b_out # None
    /\ b_seconds = 3 * SecondsPerMinute
    /\ b_time.wall % SubSec # 0
    /\ MinuteOf(b_time) = 59
    /\ b_time.wall - b_out.wall > 2 * SecondsPerMinute * SubSec

\* the five relations between the prices of a bar
OhlcConsistent(c) ==
    /\ c.high_price >= c.open_price
    /\ c.high_price >= c.close_price
    /\ c.high_price >= c.low_price
    /\ c.low_price <= c.open_price
    /\ c.low_price <= c.close_price

\* the supported timeframe identifiers and the minutes each stands for
SupportedTimeframes ==
    {"ONE_MINUTE", "THREE_MINUTE", "FIVE_MINUTE", "TEN_MINUTE", "FIFTEEN_MINUTE"}
MappedMinutes(name) ==
    CASE name = "ONE_MINUTE" -> 1
      [] name = "THREE_MINUTE" -> 3
      [] name = "FIVE_MINUTE" -> 5
      [] name = "TEN_MINUTE" -> 10
      [] name = "FIFTEEN_MINUTE" -> 15

\* close_time - open_time, in clock units
SpanOf(c) == Instant(c.close_time) - Instant(c.open_time)
ExactSpan(c) ==
    /\ c.timeframe \in SupportedTimeframes
    /\ SpanOf(c) = MappedMinutes(c.timeframe) * SecondsPerMinute * SubSec

\* the bar is closed and nothing about its timeframe, its timestamps or
\* its window is wrong at the clock reading now
TimesAccepted(c, now) ==
    /\ c.is_closed
    /\ c.open_time.tz # "naive" /\ c.close_time.tz # "naive"
    /\ Instant(c.open_time) >= Instant(EPOCH_CUTOFF)
    /\ Instant(c.open_time) <= Instant(now) + SecondsPerMinute * SubSec
    /\ ExactSpan(c)
    /\ TimeOfDay(c.close_time) <= SessionEnd
    /\ TimeOfDay(c.close_time) > SessionStart
\* all four prices are positive
PricesPositive(c) ==
    c.open_price > 0 /\ c.high_price > 0 /\ c.low_price > 0 /\ c.close_price > 0

OtherChecksPass(c, now) ==
    /\ TimesAccepted(c, now)
    /\ PricesPositive(c)
    /\ OhlcConsistent(c)
    /\ c.volume >= 1

\* C18: of two closed bars with trade count 0 that pass every other check
\* and differ only in mode, the live one is rejected and the historical
\* one is accepted.
C18_ZeroTradesLiveRejectedHistoricalAccepted ==
    (/\ v_verdict # None
     /\ v_candle.number_of_trades = 0
     /\ OtherChecksPass(v_candle, v_now))
    => /\ v_candle.mode = "live" => ~v_verdict.valid
       /\ v_candle.mode = "historical" => v_verdict.valid
       /\ validate_candle([v_candle EXCEPT !.mode = "live"], v_now).valid = FALSE
       /\ validate_candle([v_candle EXCEPT !.mode = "historical"], v_now).valid = TRUE

\* C18 case: a historical bar with trade count 0 has been accepted
C18_Witness ==
    /\ v_verdict # None
    /\ v_candle.number_of_trades = 0
    /\ v_candle.mode = "historical"
    /\ OtherChecksPass(v_candle, v_now)
    /\ v_verdict.valid

\* C19: a bar whose trade count is negative is rejected, whatever its mode.
C19_NegativeTradeCountRejected ==
    (v_verdict # None /\ v_candle.number_of_trades < 0) => ~v_verdict.valid

\* C20: an accepted bar has one of the five supported timeframe
\* identifiers and close_time - open_time is exactly the duration of that
\* identifier; a bar whose span differs, by whatever amount and in either
\* direction, is rejected.
C20_TimeframeAndExactDuration ==
    v_verdict # None =>
        /\ (v_verdict.valid => ExactSpan(v_candle))
        /\ (~ExactSpan(v_candle) => ~v_verdict.valid)

\* C20 case: a bar one clock unit longer than its timeframe, with nothing
\* else wrong, has been rejected for the mismatch
C20_Witness ==
    /\ v_verdict # None
    /\ v_candle.is_closed
    /\ v_candle.timeframe \in SupportedTimeframes
    /\ SpanOf(v_candle) =
          MappedMinutes(v_candle.timeframe) * SecondsPerMinute * SubSec + 1
    /\ PricesPositive(v_candle) /\ OhlcConsistent(v_candle)
    /\ v_candle.volume >= 1 /\ v_candle.number_of_trades >= 1
    /\ ~v_verdict.valid /\ v_verdict.reason = "TIMEFRAME_MISMATCH"

\* the bar passes every check that runs before the session rule: closed,
\* supported timeframe, aware timestamps not before the cutoff, open_time
\* not in the future, exact duration
ReachesSessionRule(c, now) ==
    /\ c.is_closed
    /\ c.open_time.tz # "naive" /\ c.close_time.tz # "naive"
    /\ Instant(c.open_time) >= Instant(EPOCH_CUTOFF)
    /\ Instant(c.open_time) <= Instant(now) + SecondsPerMinute * SubSec
    /\ ExactSpan(c)

\* C21: of the bars that pass all earlier checks, one whose close
\* time-of-day is after 15:30 is rejected, one whose open is before 09:15
\* and whose close is at or before 09:15 is rejected, and one whose open
\* is before 09:15 and whose close is after 09:15 and not after 15:30 is
\* not rejected by the session rule.
C21_SessionRule ==
    (v_verdict # None /\ ReachesSessionRule(v_candle, v_now)) =>
        LET open == TimeOfDay(v_candle.open_time)
            close == TimeOfDay(v_candle.close_time)
            rejected == ~v_verdict.valid /\ v_verdict.reason = "MARKET_HOURS_VIOLATION"
        IN /\ (close > SessionEnd => rejected)
           /\ ((open < SessionStart /\ close <= SessionStart) => rejected)
           /\ ((open < SessionStart /\ close > SessionStart /\ close <= SessionEnd)
                  => ~rejected)

\* C21 case: a bar that opens before 09:15 and closes inside the session,
\* with nothing else wrong, has been accepted
C21_Witness ==
    /\ v_verdict # None
    /\ ReachesSessionRule(v_candle, v_now)
    /\ TimeOfDay(v_candle.open_time) < SessionStart
    /\ TimeOfDay(v_candle.close_time) > SessionStart
    /\ v_verdict.valid

\* open_time is more than 60 seconds later than the clock reading
MoreThan60sAhead(c, now) ==
    Instant(c.open_time) > Instant(now) + 60 * SubSec
BothAware(c) == c.open_time.tz # "naive" /\ c.close_time.tz # "naive"

\* C22: a bar whose open_time is more than 60 seconds later than the
\* wall clock is rejected; a bar whose open_time is at most 60 seconds
\* ahead, exactly 60 seconds included, is not rejected by this rule.
C22_FutureToleranceInclusive ==
    (v_verdict # None /\ BothAware(v_candle)) =>
        /\ MoreThan60sAhead(v_candle, v_now) => ~v_verdict.valid
        /\ (/\ MoreThan60sAhead(v_candle, v_now)
            /\ v_candle.is_closed
            /\ v_candle.timeframe \in SupportedTimeframes)
           => v_verdict.reason = "TIMESTAMP_IN_FUTURE"
        /\ ~MoreThan60sAhead(v_candle, v_now)
           => v_verdict.reason # "TIMESTAMP_IN_FUTURE"

\* C22 case: a bar whose open_time is exactly 60 seconds ahead of the
\* clock has been accepted
C22_Witness ==
    /\ v_verdict # None
    /\ BothAware(v_candle)
    /\ Instant(v_candle.open_time) = Instant(v_now) + 60 * SubSec
    /\ v_verdict.valid

\* C23: a bar with volume below 1 is not accepted by validate_candle, so
\* when an admitted tick closes a bar built only from ticks of quantity 0
\* the bar is dropped: the call returns nothing, raises nothing, and the
\* bar is no longer the one in progress.
C23_ZeroVolumeBarDropped ==
    [][LET t == tick' IN
       (/\ Admitted(t)
        /\ current_candle # None
        /\ ~DtLess(Local(t), current_candle.close_time)
        /\ current_candle.volume < 1)
       => /\ ~validate_candle(Closed(current_candle), clock').valid
          /\ ReturnedNothing
          /\ current_candle' # None
          /\ current_candle'.open_time # current_candle.open_time]_vars

\* the rule of the session window is broken
SessionRuleBroken(c) ==
    \/ TimeOfDay(c.close_time) > SessionEnd
    \/ TimeOfDay(c.open_time) < SessionStart /\ TimeOfDay(c.close_time) <= SessionStart
BeforeCutoff(c) ==
    \/ Instant(c.open_time) < Instant(EPOCH_CUTOFF)
    \/ Instant(c.close_time) < Instant(EPOCH_CUTOFF)
TradesMissing(c) == c.mode = "live" /\ c.number_of_trades < 1

\* the checks in the order the claim lists them, numbered 1 to 9; 0 when
\* none fails
ClaimedFirstFailure(c, now) ==
    IF ~c.is_closed THEN 1
    ELSE IF ~ExactSpan(c) THEN 2
    ELSE IF ~BothAware(c) \/ BeforeCutoff(c) \/ SpanOf(c) <= 0 THEN 3
    ELSE IF MoreThan60sAhead(c, now) THEN 4
    ELSE IF SessionRuleBroken(c) THEN 5
    ELSE IF ~PricesPositive(c) THEN 6
    ELSE IF ~OhlcConsistent(c) THEN 7
    ELSE IF c.volume < 1 THEN 8
    ELSE IF TradesMissing(c) THEN 9
    ELSE 0

\* the check of the claim's list a reason code belongs to
CheckOfReason(reason) ==
    CASE reason = "CANDLE_NOT_CLOSED" -> 1
      [] reason \in {"UNSUPPORTED_TIMEFRAME", "TIMEFRAME_MISMATCH"} -> 2
      [] reason \in {"TIMESTAMP_NO_TIMEZONE", "TIMESTAMP_CORRUPT", "INVALID_TIME_RANGE"} -> 3
      [] reason = "TIMESTAMP_IN_FUTURE" -> 4
      [] reason = "MARKET_HOURS_VIOLATION" -> 5
      [] reason = "NON_POSITIVE_PRICE" -> 6
      [] reason = "INVALID_OHLC" -> 7
      [] reason = "VOLUME_ZERO" -> 8
      [] reason = "NO_OF_TRADES_ZERO or BELOW MINIMUM" -> 9
      [] OTHER -> 0

\* the reason code of the first failing check, in the order: closed;
\* timeframe supported; timestamps aware; not before the cutoff; not more
\* than 60 s ahead; open_time < close_time; exact duration; session rule;
\* prices positive; OHLC; volume; trade count of a live bar
FirstFailure(c, now) ==
    IF ~c.is_closed THEN "CANDLE_NOT_CLOSED"
    ELSE IF c.timeframe \notin SupportedTimeframes THEN "UNSUPPORTED_TIMEFRAME"
    ELSE IF ~BothAware(c) THEN "TIMESTAMP_NO_TIMEZONE"
    ELSE IF BeforeCutoff(c) THEN "TIMESTAMP_CORRUPT"
    ELSE IF MoreThan60sAhead(c, now) THEN "TIMESTAMP_IN_FUTURE"
    ELSE IF SpanOf(c) <= 0 THEN "INVALID_TIME_RANGE"
    ELSE IF ~ExactSpan(c) THEN "TIMEFRAME_MISMATCH"
    ELSE IF SessionRuleBroken(c) THEN "MARKET_HOURS_VIOLATION"
    ELSE IF ~PricesPositive(c) THEN "NON_POSITIVE_PRICE"
    ELSE IF ~OhlcConsistent(c) THEN "INVALID_OHLC"
    ELSE IF c.volume < 1 THEN "VOLUME_ZERO"
    ELSE IF TradesMissing(c) THEN "NO_OF_TRADES_ZERO or BELOW MINIMUM"
    ELSE NoReason

\* C24 as stated: a rejected bar carries the reason code of the first
\* failing check in the order is_closed; timeframe and exact duration;
\* aware, not before the cutoff, open_time < close_time; not in the future;
\* session; prices; OHLC; volume; trade count. Every rejection has a
\* reason code and every acceptance has none.
C24_ReasonOfFirstFailureAsListed ==
    v_verdict # None =>
        /\ v_verdict.valid <=> v_verdict.reason = NoReason
        /\ ~v_verdict.valid =>
              CheckOfReason(v_verdict.reason) = ClaimedFirstFailure(v_candle, v_now)

\* C24 amended: a rejected bar carries the reason code of the first
\* failing check in the order is_closed; timeframe supported; timestamps
\* aware; not before the cutoff; not more than 60 s in the future;
\* open_time < close_time; exact duration; session; prices; OHLC; volume;
\* trade count of a live bar. Every rejection has a reason code and every
\* acceptance has none.
C24_ReasonOfFirstFailure ==
    v_verdict # None =>
        /\ v_verdict.valid <=> v_verdict.reason = NoReason
        /\ v_verdict.reason = FirstFailure(v_candle, v_now)

\* C24 case: a closed bar of a supported timeframe that is in the future
\* and has the wrong duration and a non-positive price has been rejected
\* as being in the future
C24_Witness ==
    /\ v_verdict # None
    /\ v_candle.is_closed
    /\ MoreThan60sAhead(v_candle, v_now)
    /\ ~ExactSpan(v_candle) /\ v_candle.timeframe \in SupportedTimeframes
    /\ ~PricesPositive(v_candle)
    /\ v_verdict.reason = "TIMESTAMP_IN_FUTURE"

\* C25: two calls of validate_candle on bars with equal field values
\* return the same (valid, reason), whenever they are made.
C25_SameBarSameVerdict ==
    v_verdict2 # None => v_verdict2 = v_verdict

\* the tick's timestamp is in a zone other than the exchange zone
ForeignZone(t) == Aware(t) /\ t.tick_time.tz # IST

\* C26: a tick in a zone other than the exchange zone is never rejected
\* for its zone: the watermark, the session check and the boundary use its
\* exchange-local time, and the call ends with the return value and the
\* accumulator state that the same instant given in the exchange zone
\* leads to.
C26_ForeignZoneConverted ==
    [][LET t == tick' IN
       ForeignZone(t) =>
         LET same == add_tick(Self, t.price, Local(t), t.quantity, clock') IN
         /\ ret' = same.ret /\ exc' = same.exc
         /\ current_candle' = same.self.current_candle
         /\ state' = same.self.state
         /\ last_tick_time' = same.self.last_tick_time
         /\ InOrder(t) => last_tick_time' = Local(t)
         /\ (InOrder(t) /\ InSession(t) /\ current_candle = None) =>
               /\ current_candle' # None
               /\ current_candle'.open_time =
                     PeriodStart(Local(t), timeframe_seconds)]_vars

\* C26 case: a tick given in UTC, whose UTC wall-clock reading is outside
\* the session, has started the bar of its exchange-local period
C26_Witness ==
    /\ tick # None /\ ForeignZone(tick)
    /\ TimeOfDay(tick.tick_time) < SessionStart
    /\ current_candle # None
    /\ last_tick_time = Local(tick)
    /\ current_candle.open_time = PeriodStart(Local(tick), timeframe_seconds)
    /\ DtLess(current_candle.open_time, Local(tick))
    /\ current_candle.open_price = tick.price
    /\ ret = None /\ exc = NoExc

\* C27: no call lowers the watermark or unsets it; it changes only to the
\* exchange-local timestamp of a zone-aware tick that is not older than
\* its previous value; a naive tick and an out-of-order tick leave it as
\* it was.
C27_WatermarkMonotonic ==
    [][LET t == tick' IN
       /\ last_tick_time # None =>
             /\ last_tick_time' # None
             /\ Instant(last_tick_time') >= Instant(last_tick_time)
       /\ last_tick_time' # last_tick_time =>
             /\ Aware(t)
             /\ InOrder(t)
             /\ last_tick_time' = Local(t)
       /\ ~Aware(t) => last_tick_time' = last_tick_time
       /\ (Aware(t) /\ ~InOrder(t)) => last_tick_time' = last_tick_time]_vars

\* C27 case: the watermark stands above the timestamp of the latest tick,
\* which was zone-aware and rejected as out of order, after a call that
\* had raised the watermark past the bar in progress
C27_Witness ==
    /\ tick # None /\ Aware(tick)
    /\ last_tick_time # None
    /\ Instant(Local(tick)) < Instant(last_tick_time)
    /\ current_candle # None
    /\ ~DtLess(last_tick_time, current_candle.close_time)
    /\ ~DtLess(Local(tick), current_candle.open_time)

\* a fetch_candles call has returned a list
Fetched == h_now # None /\ h_exc = NoExc

\* the rows of all the responses of one fetch, in the order received
RECURSIVE Flatten(_)
Flatten(seqs) == IF seqs = <<>> THEN <<>> ELSE Head(seqs) \o Flatten(Tail(seqs))

\* C28: the list fetch_candles returns is ascending by open_time, whatever
\* the sub-ranges returned and in whatever order their rows came.
C28_FetchedListSorted ==
    Fetched =>
        \A i \in 1 .. Len(h_ret) - 1 :
            Instant(h_ret[i].open_time) <= Instant(h_ret[i + 1].open_time)

\* C28 case: two sub-ranges were fetched, the first one's accepted row is
\* later than the second one's, and both are in the returned list
C28_Witness ==
    /\ Fetched /\ Len(h_ret) >= 2
    /\ Len(h_raw) = 2
    /\ Len(h_raw[1]) >= 1 /\ Len(h_raw[2]) >= 1
    /\ h_raw[1][1].ts.tz = "IST" /\ h_raw[2][1].ts.tz = "IST"
    /\ h_raw[2][1].ts.wall < h_raw[1][1].ts.wall
    /\ h_ret[1].open_time = h_raw[2][1].ts
    /\ h_ret[Len(h_ret)].open_time = h_raw[1][1].ts

\* the row can be read and its bar has nothing wrong at the clock reading
\* now, when it is taken as a historical bar of the interval
GoodRow(row, interval, zone, now) ==
    /\ row.ts.tz # "garbage"
    /\ LET open_time ==
              IF row.ts.tz = "UTC" THEN [wall |-> row.ts.wall + IstOffsetSeconds * SubSec, tz |-> "IST"]
              ELSE IF row.ts.tz = "naive" /\ zone = "UTC"
                   THEN [wall |-> row.ts.wall + IstOffsetSeconds * SubSec, tz |-> "IST"]
              ELSE [wall |-> row.ts.wall, tz |-> "IST"]
           close_time == [open_time EXCEPT !.wall = @ + minutes_map(interval) * SecondsPerMinute * SubSec]
       IN /\ interval \in SupportedTimeframes
          /\ Instant(open_time) >= Instant(EPOCH_CUTOFF)
          /\ Instant(open_time) <= Instant(now) + 60 * SubSec
          /\ TimeOfDay(close_time) <= SessionEnd
          /\ ~(TimeOfDay(open_time) < SessionStart /\ TimeOfDay(close_time) <= SessionStart)
          /\ row.open > 0 /\ row.high > 0 /\ row.low > 0 /\ row.close > 0
          /\ row.high >= row.open /\ row.high >= row.close /\ row.high >= row.low
          /\ row.low <= row.open /\ row.low <= row.close
          /\ row.volume >= 1

\* C29: every bar fetch_candles returns is a closed historical bar whose
\* close_time is its open_time plus the interval's duration and which
\* validate_candle accepts; and the bars returned are as many as the rows
\* that can be read and are valid, whichever rows come before them.
C29_FetchedBarsValidated ==
    Fetched =>
        /\ \A i \in 1 .. Len(h_ret) :
              /\ h_ret[i].mode = "historical"
              /\ h_ret[i].is_closed
              /\ h_ret[i].timeframe = h_interval
              /\ Instant(h_ret[i].close_time) - Instant(h_ret[i].open_time) =
                    minutes_map(h_interval) * SecondsPerMinute * SubSec
              /\ validate_candle(h_ret[i], h_now).valid
        /\ Len(h_ret) =
              Cardinality({i \in 1 .. Len(Flatten(h_raw)) :
                              GoodRow(Flatten(h_raw)[i], h_interval, h_zone, h_now)})

\* C29 case: a response whose first row cannot be read and whose second
\* row is valid has been fetched, and the second row's bar is returned
C29_Witness ==
    /\ Fetched /\ Len(h_ret) = 1
    /\ Len(h_raw) = 1 /\ Len(h_raw[1]) = 2
    /\ h_raw[1][1].ts.tz = "garbage"
    /\ h_raw[1][2].ts.tz = "IST"
    /\ h_ret[1].open_time = h_raw[1][2].ts
    /\ h_ret[1].open_price = h_raw[1][2].open

\* C30: insert_candle is idempotent on the key (symbol, timeframe,
\* open_time). A call whose bar has a key that is already stored leaves
\* the table as it was, whatever the bar's other fields are; and once a
\* call has stored a bar, inserting that bar again, under any answer of
\* the database, gives the table that one insertion gave.
KeyStored(rows, c) == \E row \in rows : ConflictKey(row) = ConflictKey(c)
C30_InsertIdempotentOnKey ==
    [][/\ KeyStored(r_rows, r_candle') => r_rows' = r_rows
       /\ r_candle' \in r_rows' =>
            \A outcome \in StorageOutcomes :
                insert_candle([rows |-> r_rows', unique |-> r_unique],
                              r_candle', outcome).rows = r_rows']_vars
\* the database accepted an insert of a bar whose key was stored with
\* another close price, and the stored row is still the first one
C30_Witness ==
    /\ r_candle # None
    /\ r_outcome = "ok"
    /\ r_unique
    /\ r_candle \notin r_rows
    /\ \E row \in r_rows :
        /\ ConflictKey(row) = ConflictKey(r_candle)
        /\ row.close_price # r_candle.close_price

\* C31: a storage failure inside insert_candle never reaches the caller:
\* whenever the execute or the commit step fails, the call returns
\* normally and the stored set of bars is what it was before the call.
C31_StorageFailureContained ==
    [][r_outcome' # "ok" => r_exc' = NoExc /\ r_rows' = r_rows]_vars

\* C32: no failure while _on_data handles a message (in on_candle_closed
\* or anywhere else) leaves the handler or holds up later messages: the
\* handler raises nothing, and when the message's tick closes a bar the
\* builder has moved on to the new in-progress bar, the one that tick seeds.
ClosesBar(builders, call) ==
    LET self == builders[call.symbol]
        g == add_tick_gate(self, call.tick_time)
    IN /\ g.admitted
       /\ self.current_candle # None
       /\ ~DtLess(g.tick_time, self.current_candle.close_time)
AdvancedTo(self, call) ==
    /\ self.current_candle # None
    /\ self.current_candle.open_time =
            get_candle_boundary(call.tick_time, self.timeframe_seconds)
C32_HandlerFailureContained ==
    [][/\ i_escaped' = NoExc
       /\ ((i_call' # None /\ ClosesBar(i_builders, i_call'))
            => AdvancedTo(i_builders'[i_call'.symbol], i_call'))]_vars

\* C33: the builders of different symbols are independent. A message
\* changes no builder but the one of its own symbol, and after any
\* interleaving of messages every builder is what it would be had it been
\* fed the ticks of its own symbol alone.
OtherBuildersUntouched ==
    \A sy \in DOMAIN i_builders :
        (i_call' = None \/ i_call'.symbol # sy) => i_builders'[sy] = i_builders[sy]
C33_SymbolsIndependent ==
    [][OtherBuildersUntouched /\ i_builders' = i_alone']_vars
\* a TCS tick was handled while RELIANCE has a bar in progress, and the two
\* builders carry different watermarks
C33_Witness ==
    /\ i_call # None
    /\ i_call.symbol = "TCS"
    /\ i_builders["TCS"].current_candle # None
    /\ i_builders["RELIANCE"].current_candle # None
    /\ i_builders["RELIANCE"].last_tick_time # i_builders["TCS"].last_tick_time

\* C34: the adapter hands add_tick the quantity of the message as it is,
\* 0 included, and hands it 1 only when the message carries no quantity.
C34_QuantityPassedThrough ==
    [][i_call' # None =>
        i_call'.quantity =
            IF i_message'.last_traded_quantity = Absent THEN 1
            ELSE i_message'.last_traded_quantity[1]]_vars

\* C36: ticks are conserved. Every admitted tick is counted in exactly one
\* bar: a tick inside the in-progress bar's window adds 1 to that bar's
\* trade count and its quantity to that bar's volume; any other admitted
\* tick is counted only in the new bar it seeds (trade count 1, volume its
\* quantity), the bar it closes leaving with the counts it had.
C36_TicksConserved ==
    [][LET t == tick' IN
       Admitted(t) =>
         IF current_candle # None /\ DtLess(Local(t), current_candle.close_time)
         THEN /\ current_candle' # None
              /\ current_candle'.number_of_trades = current_candle.number_of_trades + 1
              /\ current_candle'.volume = current_candle.volume + t.quantity
         ELSE /\ current_candle' # None
              /\ current_candle'.number_of_trades = 1
              /\ current_candle'.volume = t.quantity
              /\ current_candle # None => ret' \in {None, Closed(current_candle)}]_vars

\* C37: every tick folded into the in-progress bar has an exchange-local
\* time t with open_time <= t < close_time of that bar, and a bar in
\* progress has at least its seeding tick folded into it.
C37_FoldedTicksInsideWindow ==
    current_candle # None =>
        /\ Len(folded) >= 1
        /\ \A i \in 1 .. Len(folded) :
            /\ DtLeq(current_candle.open_time, Local(folded[i]))
            /\ DtLess(Local(folded[i]), current_candle.close_time)
\* a bar seeded by a tick sent in UTC that lies strictly inside the bar's
\* window, with a later tick of another time handled since
C37_Witness ==
    /\ current_candle # None
    /\ Len(folded) = 1
    /\ folded[1].tick_time.tz = "UTC"
    /\ DtLess(current_candle.open_time, Local(folded[1]))
    /\ tick # None
    /\ tick.tick_time # folded[1].tick_time

\* C38: a tick at exactly 15:30:00.000 is admitted; it closes the bar in
\* progress, if there is one, and starts the bar [15:30, 15:30 + duration).
AtSessionEnd(t) == Aware(t) /\ InOrder(t) /\ TimeOfDay(Local(t)) = SessionEnd
C38_TickAtSessionEnd ==
    [][LET t == tick' IN
       AtSessionEnd(t) =>
         /\ exc' = NoExc
         /\ current_candle' # None
         /\ current_candle'.open_time = Local(t)
         /\ current_candle'.close_time = PlusSeconds(Local(t), timeframe_seconds)
         /\ current_candle # None => ret' \in {None, Closed(current_candle)}]_vars

\* C40: fetch_candles raises only for an interval that its interval table
\* does not hold; for THIRTY_MINUTE, ONE_HOUR and ONE_DAY it returns, and
\* returns the empty list, whatever the provider sent.
UnvalidatedIntervals == {"THIRTY_MINUTE", "ONE_HOUR", "ONE_DAY"}
C40_RaisesOnlyForUnknownInterval ==
    h_now # None =>
        /\ h_exc # NoExc <=> h_interval \notin HistoricalIntervals
        /\ h_interval \in UnvalidatedIntervals => h_exc = NoExc /\ Len(h_ret) = 0

\* C39: for start < end and max_days >= 1 _chunk_date_range ends and yields
\* sub-ranges of which the first starts at start, the last ends at end,
\* each starts where the one before ended, and each is non-empty and at
\* most max_days days long; for start >= end it yields nothing, and
\* fetch_candles, making no request, returns an empty list.
ChunkLength(pair) == Instant(pair[2]) - Instant(pair[1])
C39_ChunksCoverRange ==
    c_done =>
        IF DtLess(c_start, c_end)
        THEN /\ Len(c_chunks) >= 1
             /\ c_chunks[1][1] = c_start
             /\ c_chunks[Len(c_chunks)][2] = c_end
             /\ \A i \in 1 .. Len(c_chunks) - 1 : c_chunks[i + 1][1] = c_chunks[i][2]
             /\ \A i \in 1 .. Len(c_chunks) :
                    /\ ChunkLength(c_chunks[i]) > 0
                    /\ ChunkLength(c_chunks[i]) <= c_max_days * SecondsPerDay * SubSec
        ELSE /\ c_chunks = <<>>
             /\ \A interval \in HistoricalIntervals, n \in Nows :
                    /\ ChunkCount(interval, c_start, c_end) = 0
                    /\ fetch_candles(Symbol, interval, <<>>, "IST", n)
                            = [ret |-> <<>>, exc |-> NoExc]
\* a range cut into three or more sub-ranges, the last one shorter than
\* max_days days
C39_Witness ==
    /\ c_done
    /\ Len(c_chunks) >= 3
    /\ ChunkLength(c_chunks[Len(c_chunks)]) < c_max_days * SecondsPerDay * SubSec
    /\ ChunkLength(c_chunks[1]) = c_max_days * SecondsPerDay * SubSec

====
